---- MODULE Spec2Model ----
(***************************************************************************)
(* Model of the shindb storage engine: the sharded in-memory document      *)
(* index (MapManager over InMemoryDataStore shards), the memory governor   *)
(* (MemoryManager), the collections catalog and the append-only log.       *)
(*                                                                         *)
(* JavaScript numbers that can become NaN/undefined (a collection's nextId *)
(* and size seeded from `size(c).data! + 1` on a shard that has no state   *)
(* for c) are modelled by the token NaN; `undefined` size counters only    *)
(* ever flow into arithmetic, where they behave as NaN.                    *)
(*                                                                         *)
(* Every shard hands its records to the Archive singleton, as the          *)
(* constructor of InMemoryDataStore requires. The k-th document a client   *)
(* makes is NewDoc(k), so any two inserted documents differ and a          *)
(* document can be recognised in the shards, the recency index and the     *)
(* log.                                                                    *)
(***************************************************************************)
EXTENDS Integers, Sequences, FiniteSets, TLC

VARIABLES
  catalog,      \* InMemoryCollectionsCatalog: collections, collectionUniqueFields
  maps,         \* MapManager.maps: sequence of MapState [data, size]
  currentMapIndex, \* MapManager.currentMapIndex (1-based position in maps)
  lruCache,     \* MemoryManager.lruCache, in Map insertion order
  isMonitoring, \* MemoryManager.isMonitoring
  usage,        \* Deno.memoryUsage(): [rss, heapUsed]
  config,       \* MemoryManager.config
  now,          \* Date.now()
  emergencyBrakeCount, \* MapManager.emergencyBrakeCount
  lastEvictionTime,    \* MapManager.lastEvictionTime
  log,          \* records handed to Archive.addRecord, in call order
  lockQueue,    \* Mutex: callers whose lock body has not run yet, FIFO
  calls,        \* in-flight async set/setMany calls, one per caller
  ret,          \* the Response of the operation that completed last
  commits,      \* history: <<name, id, doc>> of every committed insert
  expect,       \* history: documents a get must still return (read-your-write)
  everDeleted,  \* history: some document was deleted or evicted
  made,         \* client side: documents handed to set/setMany so far
  activeTransactions, \* MapManager.activeTransactions
  conns,        \* ProtocolV2: the connections, each with its handleConnection loop
  mutex,        \* Mutex on its own: the lock() calls so far, in call order
  monitor,      \* MemoryManager on its own: isMonitoring, checkInterval, the timers
  callbacks,    \* MemoryManager on its own: evictionCallbacks, emergencyCallbacks
  archive,      \* Archive on its own: buf, bufSize, file and what was written
  client,       \* the SDK's Client: its connection and the send calls in flight
  queue         \* BackgroundQueue on its own: queue, running and the jobs

\* the shards and what is derived from them
storeVars == <<maps, currentMapIndex>>
\* the memory governor and the brake of MapManager
memVars == <<isMonitoring, usage, config, emergencyBrakeCount, lastEvictionTime>>
\* the histories kept for the properties
histVars == <<commits, expect, everDeleted>>

\* the engine: everything but the connections
engineVars == <<catalog, maps, currentMapIndex, lruCache, isMonitoring, usage,
                config, now, emergencyBrakeCount, lastEvictionTime, log,
                lockQueue, calls, ret, commits, expect, everDeleted, made,
                activeTransactions>>

\* the classes that are also modelled on their own
classVars == <<mutex, monitor, callbacks>>
unitVars == <<archive, client, queue>>
compVars == <<classVars, unitVars>>

vars == <<engineVars, conns, compVars>>

\* a step of the engine that no connection of the protocol takes part in
Offline == UNCHANGED <<conns, compVars>>

----------------------------------------------------------------------------
(* Bounds of the model *)

\* Shard capacity; 6_000_000 in the source, lowered as in the spec's scenario.
MAX_ALLOCATED_ENTRIES == 2
\* Documents the clients of the model create; document k is [age |-> k], so
\* that any two inserted documents differ and an order is observable.
MaxDocs == 5
\* Shards the model lets getCurrentMap create.
MaxShards == 2
\* Longest document / id list passed to a bulk operation.
MaxBatch == 2
\* Longest document list of the chunked ingest runs.
MaxChunked == 3

\* Largest emergencyBrakeCount up to which the model lets the sampler fire.
MaxBrake == 5
\* Clock steps the model takes, each of TickMs milliseconds.
MaxTicks == 1
TickMs == 1000
\* Date.now() at construction
StartTime == 5 * TickMs

MiB == 1024 * 1024
GiB == 1024 * 1024 * 1024

\* MemoryManager defaults
DefaultMaxRSS == 1024 * 1024 * 1024
DefaultMaxHeap == 512 * 1024 * 1024
DefaultThresholdPct == 80

\* Memory readings the model lets Deno.memoryUsage() return: far below the
\* limits, rss close to its limit, rss over its limit, heap close to its limit
RssLow == 100 * MiB
\* rss at which a batch of two documents is refused and one document is admitted
RssEdge == (DefaultMaxRSS \div 51) * 50 - 200
RssHigh == DefaultMaxRSS - 10 * MiB
RssOver == DefaultMaxRSS + 1
HeapLow == 50 * MiB
HeapHigh == DefaultMaxHeap - MiB
\* heapUsed at which a batch of three documents is refused and two are admitted
HeapEdge == (DefaultMaxHeap \div 51) * 50 - 300
UsageLevels ==
  {[rss |-> RssLow, heapUsed |-> HeapLow], [rss |-> RssEdge, heapUsed |-> HeapLow],
   [rss |-> RssHigh, heapUsed |-> HeapLow], [rss |-> RssOver, heapUsed |-> HeapLow]}

\* Document counts of setMany / setManyChunked, scaled down with the batches
\* of the model (source: 10000, 50000, 1000 and 5000 documents)
CHUNK_THRESHOLD == 1
MAX_CHUNK == 2
MIN_CHUNK == 1
LOW_MEMORY_CHUNK == 1

\* Readings, limits <<maxRSSBytes, maxHeapBytes>> and estimates canAllocate is
\* asked about: around the default limits, around small limits where every
\* byte counts, and estimates over 1 GiB (where the margin is 1.01)
AllocRss == {0, 980, 1000, 1001, 1020, RssLow, RssEdge, RssHigh, RssOver}
AllocHeap == {0, 490, 500, 501, HeapLow, HeapHigh}
AllocLimits ==
  {<<1020, 510>>, <<DefaultMaxRSS, DefaultMaxHeap>>, <<2000 * MiB, 2000 * MiB>>,
   <<2000 * MiB, 510>>}
AllocEstimates == {0, 1, 9, 10, 19, 20, 21, 10 * MiB, GiB, GiB + 1, GiB + 10 * MiB}

NaN == 0 - 1
OK == "OK"
ERROR == "ERROR"

Names == {"a", "b"}
Callers == {1, 2}
\* the connections; connection c makes its engine calls as caller c
Conns == Callers
\* Frames the clients send in a run.
MaxFrames == 3
\* lock() calls on the mutex modelled on its own
MaxLocks == 4
\* documents handed to set/setMany where every call has to return
LiveDocs == 4
\* timers the sampler creates, and samples taken, in the model of MemoryManager on its own
MaxTimers == 2
MaxSamples == 1
\* JavaScript values of document fields and query operands, tagged with
\* their typeof; a string is the sequence of its characters
Num(n) == [t |-> "number", v |-> n]
Undefined == [t |-> "undefined", v |-> 0]
Str(chars) == [t |-> "string", v |-> chars]
Bool(b) == [t |-> "boolean", v |-> b]
Arr(items) == [t |-> "array", v |-> items]
\* the k-th document a client creates (k from 0), and the document every
\* update writes
NewDoc(k) == [age |-> Num(k)]
Patch == [age |-> Num(9)]
Patch2 == [age |-> Num(8)]
\* the ids clients ask for: every id the shards can hand out for MaxDocs
\* documents, and NaN
DocIds == (0 .. MaxDocs) \cup {NaN}

----------------------------------------------------------------------------
(* JavaScript number helpers *)

Inc(x) == IF x = NaN THEN NaN ELSE x + 1
Dec(x) == IF x = NaN THEN NaN ELSE x - 1
Plus(x, n) == IF x = NaN THEN NaN ELSE x + n

Put(m, k, v) == [x \in (DOMAIN m) \cup {k} |-> IF x = k THEN v ELSE m[x]]
Remove(m, k) == [x \in (DOMAIN m) \ {k} |-> m[x]]
EmptyMap == [x \in {} |-> 0]

Range(seq) == {seq[k] : k \in 1 .. Len(seq)}

RECURSIVE SeqSum(_)
SeqSum(s) == IF s = <<>> THEN 0 ELSE Head(s) + SeqSum(Tail(s))

Min(x, y) == IF x <= y THEN x ELSE y
Max(x, y) == IF x >= y THEN x ELSE y

\* The ids of a set in ascending order, NaN last: the insertion order of a
\* shard's document Map (a shard's nextId only grows, or is NaN throughout).
RECURSIVE SortIds(_)
SortIds(S) ==
  IF S = {} THEN <<>>
  ELSE LET nums == S \ {NaN}
           m == IF nums = {} THEN NaN
                ELSE CHOOSE x \in nums : \A y \in nums : x <= y
       IN <<m>> \o SortIds(S \ {m})

----------------------------------------------------------------------------
(* InMemoryCollectionsCatalog: the tables by collection name and, by       *)
(* collection name, which fields carry the modifier "unique"               *)

\* Table schemas: {}, one field without modifiers, one unique field
TableEmpty == EmptyMap
TableAge == [age |-> [type |-> "number"]]
TableUnique == [age |-> [type |-> "number", modifiers |-> {"unique"}]]
Tables == {TableEmpty, TableAge, TableUnique}

NewCatalog == [collections |-> EmptyMap, collectionUniqueFields |-> EmptyMap]

\* table[k].modifiers?.includes("unique")
IsUnique(field) ==
  IF "modifiers" \in DOMAIN field THEN Bool("unique" \in field.modifiers)
  ELSE Undefined

\* setUniqueFields: the flags of the table's fields are written over those
\* the collection has; a table without fields creates no entry
setUniqueFields(unique, name, table) ==
  IF DOMAIN table = {} THEN unique
  ELSE LET old == IF name \in DOMAIN unique THEN unique[name] ELSE EmptyMap
       IN Put(unique, name,
              [k \in DOMAIN old \cup DOMAIN table |->
                 IF k \in DOMAIN table THEN IsUnique(table[k]) ELSE old[k]])

catalogExists(cat, name) == name \in DOMAIN cat.collections

\* (a Table is an object, so !data is the test for a missing name)
catalogGet(cat, name) ==
  IF name \notin DOMAIN cat.collections THEN [status |-> ERROR]
  ELSE [status |-> OK, data |-> cat.collections[name]]

catalogSet(cat, name, table) ==
  [collections |-> Put(cat.collections, name, table),
   collectionUniqueFields |-> setUniqueFields(cat.collectionUniqueFields, name, table)]

catalogUpdate(cat, name, table) ==
  IF name \notin DOMAIN cat.collections THEN cat ELSE catalogSet(cat, name, table)

\* a delete that forgets the unique fields and keeps the table
catalogDeleteUniqueOnly(cat, name) ==
  IF name \notin DOMAIN cat.collections THEN cat
  ELSE [collections |-> cat.collections,
        collectionUniqueFields |-> Remove(cat.collectionUniqueFields, name)]

catalogDelete(cat, name) ==
  IF name \notin DOMAIN cat.collections THEN cat
  ELSE [collections |-> Remove(cat.collections, name),
        collectionUniqueFields |-> Remove(cat.collectionUniqueFields, name)]

----------------------------------------------------------------------------
(* InMemoryDataStore: one shard's per-collection state *)

ensure(name) == catalogExists(catalog, name)

ensureState(ds, name, options) ==
  IF name \in DOMAIN ds THEN ds
  ELSE Put(ds, name, [map |-> EmptyMap, nextId |-> options.nextId,
                      size |-> options.size])

DefaultOptions == [nextId |-> 0, size |-> 0]

DsHas(ds, name, docId) ==
  name \in DOMAIN ds /\ docId \in DOMAIN ds[name].map

\* size(name): st.size, or no data (undefined) when the shard has no state
DsSize(ds, name) == IF name \in DOMAIN ds THEN ds[name].size ELSE NaN

\* set(name, doc) on a collection the catalog knows: the shard afterwards
DsSet(ds, name, doc) ==
  LET d1 == ensureState(ds, name, DefaultOptions)
      st == d1[name]
  IN [d1 EXCEPT ![name] = [map |-> Put(st.map, st.nextId, doc),
                           nextId |-> Inc(st.nextId),
                           size |-> Inc(st.size)]]

\* the id set(name, doc) returns
DsSetId(ds, name) == ensureState(ds, name, DefaultOptions)[name].nextId

RECURSIVE DsSetMany(_, _, _)
DsSetMany(ds, name, docs) ==
  IF docs = <<>> THEN ensureState(ds, name, DefaultOptions)
  ELSE LET d1 == ensureState(ds, name, DefaultOptions)
           st == d1[name]
           d2 == [d1 EXCEPT ![name] = [map |-> Put(st.map, st.nextId, Head(docs)),
                                       nextId |-> Inc(st.nextId),
                                       size |-> Inc(st.size)]]
       IN DsSetMany(d2, name, Tail(docs))

\* the ids setMany(name, docs) returns
DsSetManyIds(ds, name, docs) ==
  LET first == DsSetId(ds, name)
  IN [k \in 1 .. Len(docs) |-> Plus(first, k - 1)]

\* an update that counts the document as a new one
DsUpdateCounting(ds, name, docId, patch) ==
  [ds EXCEPT ![name].map = Put(@, docId, patch), ![name].size = @ + 1]

DsUpdate(ds, name, docId, patch) ==
  [ds EXCEPT ![name].map = Put(@, docId, patch)]

DsDelete(ds, name, docId) ==
  [ds EXCEPT ![name] = [map |-> Remove(@.map, docId), nextId |-> @.nextId,
                        size |-> Dec(@.size)]]

----------------------------------------------------------------------------
(* MemoryManager *)

\* key.length of the field names the model uses
KeyLength(k) == CASE k = "age" -> 3 [] OTHER -> 1

\* estimateDataSize of a field value
RECURSIVE ValueSize(_)
ValueSize(x) ==
  CASE x.t = "number" -> 8
    [] x.t = "string" -> Len(x.v) * 2
    [] x.t = "boolean" -> 1
    [] x.t = "array" ->
         SeqSum([k \in 1 .. Len(x.v) |-> ValueSize(x.v[k])]) + Len(x.v) * 8
    [] OTHER -> 0

RECURSIVE FieldsSize(_, _)
FieldsSize(doc, keys) ==
  IF keys = {} THEN 0
  ELSE LET k == CHOOSE x \in keys : TRUE
       IN KeyLength(k) * 2 + ValueSize(doc[k]) + 16 + FieldsSize(doc, keys \ {k})

\* estimateDataSize of a document (an object): 24 + per field 2 * key.length +
\* the value's size + 16
estimateDataSize(doc) == 24 + FieldsSize(doc, DOMAIN doc)

RECURSIVE estimateDataSizeBulk(_)
estimateDataSizeBulk(docs) ==
  IF docs = <<>> THEN 0
  ELSE estimateDataSize(Head(docs)) + estimateDataSizeBulk(Tail(docs))

LruIndex(cache, key) ==
  IF \E k \in 1 .. Len(cache) : cache[k].key = key
  THEN CHOOSE k \in 1 .. Len(cache) : cache[k].key = key
  ELSE 0

LruKeys(cache) == {cache[k].key : k \in 1 .. Len(cache)}

\* trackAccess: Map.set keeps the position of a key that is already there
\* tracking that stamps a key only when it enters the index
trackAccessFirstOnly(cache, key, size, t) ==
  LET e == [key |-> key, lastAccessed |-> t, size |-> size]
      k == LruIndex(cache, key)
  IN IF k = 0 THEN Append(cache, e) ELSE cache

trackAccess(cache, key, size, t) ==
  LET e == [key |-> key, lastAccessed |-> t, size |-> size]
      k == LruIndex(cache, key)
  IN IF k = 0 THEN Append(cache, e) ELSE [cache EXCEPT ![k] = e]

RECURSIVE trackAccessBulk(_, _, _)
trackAccessBulk(cache, entries, t) ==
  IF entries = <<>> THEN cache
  ELSE trackAccessBulk(trackAccess(cache, Head(entries).key, Head(entries).size, t),
                       Tail(entries), t)

removeFromLRU(cache, key) == SelectSeq(cache, LAMBDA e : e.key # key)

\* ceil(pct * m / 100), without leaving 32 bits
CeilPct(m, pct) == pct * (m \div 100) + ((pct * (m % 100) + 99) \div 100)

\* getMemoryStats. usagePercentage = max(rss/maxRSS, heapUsed/maxHeap) is only
\* ever compared with the threshold, so the comparison is what is modelled.
getMemoryStats(u, cfg) ==
  [rss |-> u.rss, heapUsed |-> u.heapUsed,
   isOverLimit |-> (u.rss > cfg.maxRSSBytes \/ u.heapUsed > cfg.maxHeapBytes),
   atThreshold |-> (\/ u.rss >= CeilPct(cfg.maxRSSBytes, cfg.evictionThresholdPct)
                   \/ u.heapUsed >= CeilPct(cfg.maxHeapBytes, cfg.evictionThresholdPct))]

\* projected * safetyMargin <= limit, for safetyMargin 1.01 (estimates over
\* 1 GiB) or 1.02: with integer operands p * 1.02 <= m decides as
\* ceil(p / 50) <= m - p does, which stays within 32 bits
WithinMargin(projected, estimatedBytes, limit) ==
  IF estimatedBytes > 1024 * 1024 * 1024
  THEN (projected + 99) \div 100 <= limit - projected
  ELSE (projected + 49) \div 50 <= limit - projected

\* canAllocate with the heap left out of the decision
canAllocateRssOnly(u, cfg, estimatedBytes) ==
  LET stats == getMemoryStats(u, cfg)
      projectedRSS == stats.rss + estimatedBytes
  IN WithinMargin(projectedRSS, estimatedBytes, cfg.maxRSSBytes)

canAllocate(u, cfg, estimatedBytes) ==
  LET stats == getMemoryStats(u, cfg)
      projectedRSS == stats.rss + estimatedBytes
      projectedHeap == stats.heapUsed + estimatedBytes
  IN /\ WithinMargin(projectedRSS, estimatedBytes, cfg.maxRSSBytes)
     /\ WithinMargin(projectedHeap, estimatedBytes, cfg.maxHeapBytes)

\* getLRUKeysToEvict: entries sorted by lastAccessed (stable: ties stay in Map
\* order), cut after the entry with which the running total reaches the target
LruBefore(cache, i, j) ==
  \/ cache[i].lastAccessed < cache[j].lastAccessed
  \/ (cache[i].lastAccessed = cache[j].lastAccessed /\ i < j)

LruSorted(cache) ==
  LET n == Len(cache)
      rank(i) == Cardinality({j \in 1 .. n : LruBefore(cache, j, i)}) + 1
  IN [r \in 1 .. n |-> cache[CHOOSE i \in 1 .. n : rank(i) = r]]

\* a cut that goes on until the sum is above the target
RECURSIVE LruTakeAbove(_, _, _)
LruTakeAbove(entries, total, targetBytes) ==
  IF entries = <<>> THEN <<>>
  ELSE IF total + Head(entries).size > targetBytes
       THEN <<Head(entries).key>>
       ELSE <<Head(entries).key>> \o
            LruTakeAbove(Tail(entries), total + Head(entries).size, targetBytes)

RECURSIVE LruTake(_, _, _)
LruTake(entries, total, targetBytes) ==
  IF entries = <<>> THEN <<>>
  ELSE IF total + Head(entries).size >= targetBytes
       THEN <<Head(entries).key>>
       ELSE <<Head(entries).key>> \o
            LruTake(Tail(entries), total + Head(entries).size, targetBytes)

getLRUKeysToEvict(cache, cfg, targetBytes) ==
  IF cfg.evictionPolicy = "noeviction" THEN <<>>
  ELSE LruTake(LruSorted(cache), 0, targetBytes)

----------------------------------------------------------------------------
(* MapManager helpers *)

\* Strings that are taken apart are sequences of characters. The collection
\* names of the model and their characters:
KeyNames == {"a", "b", "a:b", ""}
Chars(name) ==
  CASE name = "a" -> <<"a">>
    [] name = "b" -> <<"b">>
    [] name = "a:b" -> <<"a", ":", "b">>
    [] OTHER -> <<>>

\* the name whose characters are chars
NameOf(chars) ==
  IF \E n \in KeyNames : Chars(n) = chars
  THEN CHOOSE n \in KeyNames : Chars(n) = chars
  ELSE ""

DigitChars == <<"0", "1", "2", "3", "4", "5", "6", "7", "8", "9">>

\* `${docId}`: the decimal digits of a non-negative integer, "NaN" for NaN
RECURSIVE NumText(_)
NumText(n) ==
  IF n = NaN THEN <<"N", "a", "N">>
  ELSE IF n < 10 THEN <<DigitChars[n + 1]>>
  ELSE NumText(n \div 10) \o <<DigitChars[(n % 10) + 1]>>

DigitValue(c) == CHOOSE d \in 0 .. 9 : DigitChars[d + 1] = c

\* parseInt(text, 10): the number the leading digits spell, NaN without any
RECURSIVE LeadingDigits(_, _)
LeadingDigits(text, value) ==
  IF text = <<>> \/ Head(text) \notin Range(DigitChars) THEN value
  ELSE LeadingDigits(Tail(text), 10 * value + DigitValue(Head(text)))

parseInt(text) ==
  IF text = <<>> \/ Head(text) \notin Range(DigitChars) THEN NaN
  ELSE LeadingDigits(text, 0)

\* text.split(sep): the parts between the separators
RECURSIVE Split(_, _)
Split(text, sep) ==
  IF \A k \in 1 .. Len(text) : text[k] # sep THEN <<text>>
  ELSE LET k == CHOOSE i \in 1 .. Len(text) :
                  text[i] = sep /\ \A j \in 1 .. i - 1 : text[j] # sep
       IN <<SubSeq(text, 1, k - 1)>> \o Split(SubSeq(text, k + 1, Len(text)), sep)

\* `${collectionName}:${docId}`
createLRUKey(name, docId) == Chars(name) \o <<":">> \o NumText(docId)

\* [parts[0], isNaN(docId) ? null : docId], [null, null] unless the key has
\* two parts (ok: the id is not null)
parseLRUKey(key) ==
  LET parts == Split(key, ":")
  IN IF Len(parts) # 2 THEN [name |-> "", docId |-> NaN, ok |-> FALSE]
     ELSE [name |-> NameOf(parts[1]), docId |-> parseInt(parts[2]),
           ok |-> parseInt(parts[2]) # NaN]

\* findIdInMap: the first shard, in creation order, that has the id (0: none)
findIdInMap(ms, name, docId) ==
  IF \E k \in 1 .. Len(ms) : DsHas(ms[k].data, name, docId)
  THEN CHOOSE k \in 1 .. Len(ms) :
         /\ DsHas(ms[k].data, name, docId)
         /\ \A j \in 1 .. (k - 1) : ~DsHas(ms[j].data, name, docId)
  ELSE 0

NoRet == [op |-> "none", status |-> OK]
IdleCall == [pc |-> "idle"]

\* setMany's estimate of a batch
estimatedSize(docs) ==
  estimateDataSizeBulk(docs) + Len(docs) * 32 + Min(Len(docs) * 50, 512 * 1024)

\* setMany's admission with a refusal that leaves the sampler running
AdmitWithoutStop(u, cfg, docs, isChunked) ==
  IF ~canAllocate(u, cfg, estimatedSize(docs))
  THEN IF Len(docs) > CHUNK_THRESHOLD /\ ~isChunked THEN "chunk" ELSE "overlimit"
  ELSE IF getMemoryStats(u, cfg).isOverLimit THEN "overlimit"
  ELSE "commit"

\* setMany up to `await getCurrentMap()`: fall back to chunks, refuse (and
\* stop the sampler), refuse because a limit is already exceeded, or go on
Admit(u, cfg, docs, isChunked) ==
  IF ~canAllocate(u, cfg, estimatedSize(docs))
  THEN IF Len(docs) > CHUNK_THRESHOLD /\ ~isChunked THEN "chunk" ELSE "refuse"
  ELSE IF getMemoryStats(u, cfg).isOverLimit THEN "overlimit"
  ELSE "commit"

\* setManyChunked's chunk length
\* floor(0.8 * bytes / sampleSize), without leaving 32 bits
FloorEightTenths(bytes, sampleSize) ==
  (4 * (bytes \div 5) + (4 * (bytes % 5)) \div 5) \div sampleSize

\* the chunk length setManyChunked computes from the free memory and the
\* size of the first document, under the document counts limits
chunkLength(availableMemory, sampleSize, limits) ==
  LET safeAvailableMemory == Max(availableMemory, 200 * 1024 * 1024)
      maxChunkSize == FloorEightTenths(safeAvailableMemory, sampleSize)
      chunkSize == Max(Min(maxChunkSize, limits.max), limits.min)
      final == IF chunkSize < limits.min THEN limits.min ELSE chunkSize
  IN IF availableMemory < 100 * 1024 * 1024 THEN Min(final, limits.low)
     ELSE final

\* the document counts of the source, and those of the model's batches
SourceLimits == [max |-> 50000, min |-> 1000, low |-> 5000]
ModelLimits == [max |-> MAX_CHUNK, min |-> MIN_CHUNK, low |-> LOW_MEMORY_CHUNK]

finalChunkSize(u, cfg, docs) ==
  chunkLength(cfg.maxRSSBytes - getMemoryStats(u, cfg).rss,
              estimateDataSize(docs[1]), ModelLimits)

\* MapManager.get / InMemoryDataStore.get as a function of the state
GetRes(ms, name, docId) ==
  LET k == findIdInMap(ms, name, docId)
  IN IF k = 0 THEN [status |-> ERROR]
     ELSE [status |-> OK, id |-> docId, doc |-> ms[k].data[name].map[docId]]

----------------------------------------------------------------------------
(* Predicates of find. A Where is [field, op], [AND |-> <<...>>] or        *)
(* [OR |-> <<...>>]; an Ops is a record of the operators that are given.   *)

Truthy(x) ==
  CASE x.t = "number" -> x.v # 0 /\ x.v # NaN
    [] x.t = "string" -> x.v # <<>>
    [] x.t = "boolean" -> x.v
    [] x.t = "undefined" -> FALSE
    [] OTHER -> TRUE

\* a === b for primitives; two arrays are never the same object
StrictEq(a, b) == a.t = b.t /\ a.t # "array" /\ a.t # "undefined" /\ a.v = b.v

\* the UTF-16 code unit of the characters the model uses
CharCode(c) == IF c = "a" THEN 97 ELSE 98

\* s < t for two strings: the first differing code unit decides
RECURSIVE StrLess(_, _)
StrLess(s, t) ==
  IF t = <<>> THEN FALSE
  ELSE IF s = <<>> THEN TRUE
  ELSE IF Head(s) = Head(t) THEN StrLess(Tail(s), Tail(t))
  ELSE CharCode(Head(s)) < CharCode(Head(t))

\* a < b for two numbers, two strings or two booleans (the operands the
\* model compares): booleans compare as 0 and 1, NaN compares false
JsLess(a, b) ==
  CASE a.t = "number" /\ b.t = "number" -> a.v # NaN /\ b.v # NaN /\ a.v < b.v
    [] a.t = "string" /\ b.t = "string" -> StrLess(a.v, b.v)
    [] a.t = "boolean" /\ b.t = "boolean" -> ~a.v /\ b.v
    [] OTHER -> FALSE

JsLessEq(a, b) ==
  \/ JsLess(a, b)
  \/ (a.t \in {"string", "boolean"} /\ StrictEq(a, b))
  \/ (a.t = "number" /\ StrictEq(a, b) /\ a.v # NaN)

\* Array.prototype.includes
Includes(arr, x) == \E k \in 1 .. Len(arr.v) : StrictEq(arr.v[k], x)

\* String.prototype.includes: x occurs in s as a substring
SubstringOf(x, s) ==
  \E k \in 0 .. (Len(s) - Len(x)) : SubSeq(s, k + 1, k + Len(x)) = x

Given(ops, key) == key \in DOMAIN ops /\ Truthy(ops[key])

RECURSIVE evaluateOperators(_, _)
evaluateOperators(value, ops) ==
  LET eq == Given(ops, "eq") => StrictEq(value, ops.eq)
      gt == Given(ops, "gt") => JsLess(ops.gt, value)
      lt == Given(ops, "lt") => JsLess(value, ops.lt)
      gte == Given(ops, "gte") => JsLessEq(ops.gte, value)
      lte == Given(ops, "lte") => JsLessEq(value, ops.lte)
      in == Given(ops, "in") => Includes(ops.in, value)
      nin == Given(ops, "nin") => ~Includes(ops.nin, value)
      contains ==
        Given(ops, "contains") =>
          CASE value.t = "array" -> Includes(value, ops.contains)
            [] value.t = "string" ->
                 /\ ops.contains.t = "string"
                 /\ SubstringOf(ops.contains.v, value.v)
            [] OTHER -> FALSE
      overlap ==
        Given(ops, "overlap") =>
          /\ value.t = "array"
          /\ \E k \in 1 .. Len(ops.overlap.v) : Includes(value, ops.overlap.v[k])
      not == ("not" \in DOMAIN ops) => ~evaluateOperators(value, ops.not)
  IN eq /\ gt /\ lt /\ gte /\ lte /\ in /\ nin /\ contains /\ overlap /\ not

RECURSIVE matchesWhere(_, _)
matchesWhere(doc, where) ==
  IF "field" \in DOMAIN where
  THEN evaluateOperators(IF where.field \in DOMAIN doc THEN doc[where.field]
                         ELSE Undefined, where.op)
  ELSE IF "AND" \in DOMAIN where
  THEN \A k \in 1 .. Len(where.AND) : matchesWhere(doc, where.AND[k])
  ELSE IF "OR" \in DOMAIN where
  THEN \E k \in 1 .. Len(where.OR) : matchesWhere(doc, where.OR[k])
  ELSE TRUE

\* the {id, doc} pairs find collects from one shard, in the Map's order
ShardMatches(ds, name, where) ==
  IF ~ensure(name) \/ name \notin DOMAIN ds THEN <<>>
  ELSE LET ids == SortIds(DOMAIN ds[name].map)
           hits == SelectSeq(ids, LAMBDA i : matchesWhere(ds[name].map[i], where))
       IN [k \in 1 .. Len(hits) |-> [id |-> hits[k], doc |-> ds[name].map[hits[k]]]]

RECURSIVE FindRes(_, _, _)
FindRes(ms, name, where) ==
  IF ms = <<>> THEN <<>>
  ELSE ShardMatches(Head(ms).data, name, where) \o FindRes(Tail(ms), name, where)

\* getAll(name) on every shard creates the collection's state where missing
AfterGetAll(ms, name) ==
  IF ~ensure(name) THEN ms
  ELSE [k \in 1 .. Len(ms) |->
          [data |-> ensureState(ms[k].data, name, DefaultOptions), size |-> ms[k].size]]

\* The queries the model sends
Cond(field, op) == [field |-> field, op |-> op]
Wheres ==
  {Cond("age", [eq |-> Num(0)]),
   Cond("age", [eq |-> Num(1)]),
   Cond("age", [not |-> [eq |-> Num(1)]]),
   [AND |-> <<Cond("age", [gte |-> Num(1)]), Cond("age", [lt |-> Num(9)])>>],
   [OR |-> <<Cond("age", [eq |-> Num(9)]), Cond("age", [gt |-> Num(2)])>>]}

----------------------------------------------------------------------------
(* ProtocolV2: the frames and the connections *)

\* the largest frame length handleConnection accepts
maxMessageSize == 100 * 1024 * 1024

\* the cases of processMessage's switch
KnownActions ==
  {"create", "get", "update", "delete", "createMany", "getMany", "updateMany",
   "find"}

\* Well-formed requests, one per action of the protocol, and one with an
\* action the protocol does not know. The documents of create and createMany
\* are the next n documents the client makes.
Requests ==
  {[action |-> "create", collection |-> "a", payload |-> [n |-> 1]],
   [action |-> "get", collection |-> "a", payload |-> [docId |-> 0]],
   [action |-> "update", collection |-> "a",
    payload |-> [query |-> [docId |-> 0], update |-> Patch]],
   [action |-> "delete", collection |-> "a", payload |-> [docId |-> 0]],
   [action |-> "createMany", collection |-> "a", payload |-> [n |-> 2]],
   [action |-> "getMany", collection |-> "a", payload |-> [ids |-> <<0, 1>>]],
   [action |-> "updateMany", collection |-> "a",
    payload |-> [updates |-> <<[id |-> 0, doc |-> Patch]>>]],
   [action |-> "deleteMany", collection |-> "a", payload |-> [ids |-> <<0>>]],
   [action |-> "find", collection |-> "a",
    payload |-> [where |-> Cond("age", [not |-> [eq |-> Num(1)]])]],
   [action |-> "drop", collection |-> "a", payload |-> [n |-> 0]]}

\* what follows a length prefix of 0: nothing
NoMessage == [action |-> "none", collection |-> "a", payload |-> [n |-> 0]]

\* Frames a client sends: a request in a frame of one 64 KiB chunk, the
\* empty frame, a get in a frame of exactly maxMessageSize bytes, and a
\* frame one byte longer
Frames ==
  {[length |-> 64 * 1024, msg |-> r] : r \in Requests} \cup
  {[length |-> 0, msg |-> NoMessage]} \cup
  {[length |-> len,
    msg |-> [action |-> "get", collection |-> "a", payload |-> [docId |-> 0]]] :
     len \in {maxMessageSize, maxMessageSize + 1}}

\* a connection the listener has just accepted: its loop is about to read a
\* length prefix. inbox: frames sent and not yet read; req: the frame being
\* handled; resp: the Response to send; out: the response frames written.
\* Histories: sent (frames the client sent), seen (frames whose payload was
\* read, with the engine operation they were dispatched to), zero (empty
\* frames skipped).
NewConn ==
  [open |-> TRUE, pc |-> "read", inbox |-> <<>>,
   req |-> [length |-> 0, msg |-> NoMessage, n |-> 0], resp |-> NoRet,
   out |-> <<>>, sent |-> 0, seen |-> <<>>, zero |-> {}]

----------------------------------------------------------------------------
(* Initial state: a MapManager over a catalog that knows collection "a",   *)
(* one empty shard, default memory limits, the sampler not started.        *)

\* the callbacks clients register: Thrower throws, Stopper calls
\* stopMonitoring as performLRUEviction does when its brake trips
\* Archive: the flush threshold (source: 4 * 1024 bytes) and the object after
\* construction; file stays null, the open call is commented out
FLUSH_BYTES == 4
MaxRecords == 4
Null == "null"
NewArchive ==
  [buf |-> <<>>, bufSize |-> 0, file |-> Null, written |-> <<>>, writes |-> 0,
   added |-> <<>>]

\* Client: the callers of send, the 64 KiB chunks of each caller's encoded
\* message, and the class after setup()
Senders == {1, 2}
BodyChunks(p) == IF p = 1 THEN 2 ELSE 1
IdleSend == [pc |-> "idle", offset |-> 0, got |-> <<>>]
NewClient ==
  [out |-> <<>>, served |-> 0, inb |-> <<>>, reads |-> <<>>,
   calls |-> [p \in Senders |-> IdleSend]]

\* BackgroundQueue: maxConcurrent (source: 5), the jobs the model adds, and
\* the object after construction
maxConcurrent == 2
MaxJobs == 4
Outcomes == {"resolved", "rejected"}
NewQueue == [queue |-> <<>>, running |-> 0, jobs |-> <<>>, started |-> <<>>]


Thrower == "throws"
Returner == "returns"
Stopper == "stops"
Cbs == {Thrower, Returner, Stopper}
Kinds == {"eviction", "emergency"}

NewMonitor == [isMonitoring |-> FALSE, checkInterval |-> 0, timers |-> {},
               created |-> 0, last |-> "none"]
NewCallbacks ==
  [eviction |-> <<>>, emergency |-> <<>>,
   invoked |-> [kind \in Kinds |-> [cb \in Cbs |-> 0]],
   handles |-> {}, samples |-> 0]

DefaultConfig ==
  [maxRSSBytes |-> DefaultMaxRSS, maxHeapBytes |-> DefaultMaxHeap,
   evictionPolicy |-> "lru", evictionThresholdPct |-> DefaultThresholdPct]

Init ==
  /\ catalog = catalogSet(NewCatalog, "a", TableAge)
  /\ maps = <<[data |-> EmptyMap, size |-> 0]>>
  /\ currentMapIndex = 1
  /\ lruCache = <<>>
  /\ isMonitoring = FALSE
  /\ usage = [rss |-> RssLow, heapUsed |-> HeapLow]
  /\ config = DefaultConfig
  /\ now = StartTime
  /\ emergencyBrakeCount = 0
  /\ lastEvictionTime = 0
  /\ log = <<>>
  /\ lockQueue = <<>>
  /\ calls = [p \in Callers |-> IdleCall]
  /\ ret = NoRet
  /\ commits = <<>>
  /\ expect = {}
  /\ everDeleted = FALSE
  /\ made = 0
  /\ activeTransactions = {}
  /\ conns = [c \in Conns |-> NewConn]
  /\ mutex = <<>>
  /\ monitor = NewMonitor
  /\ callbacks = NewCallbacks
  /\ archive = NewArchive
  /\ client = NewClient
  /\ queue = NewQueue

----------------------------------------------------------------------------
(* Synchronous operations of MapManager *)

\* the read-your-write obligations that end when (name, docId) is updated,
\* deleted or evicted
Forget(obligations, name, ids) ==
  {o \in obligations : ~(o[1] = name /\ o[2] \in ids)}

\* catalog.set(name, ...): a client registers a collection
Collection(name) ==
  /\ ~catalogExists(catalog, name)
  /\ catalog' = catalogSet(catalog, name, TableAge)
  /\ ret' = [op |-> "createCollection", status |-> OK]
  /\ UNCHANGED <<storeVars, memVars, histVars, lruCache, now, log, lockQueue,
                 calls, made, activeTransactions>>

Get(name, docId) ==
  LET res == GetRes(maps, name, docId)
  IN /\ lruCache' = IF res.status = OK
                    THEN trackAccess(lruCache, createLRUKey(name, docId),
                                     estimateDataSize(res.doc), now)
                    ELSE lruCache
     /\ ret' = [op |-> "get"] @@ res
     /\ UNCHANGED <<catalog, storeVars, memVars, histVars, now, log, lockQueue,
                    calls, made, activeTransactions>>

Update(name, docId, doc) ==
  LET k == findIdInMap(maps, name, docId)
  IN /\ IF k = 0
        THEN /\ ret' = [op |-> "update", status |-> ERROR]
             /\ UNCHANGED <<maps, expect>>
        ELSE /\ maps' = [maps EXCEPT ![k].data = DsUpdate(@, name, docId, doc)]
             /\ ret' = [op |-> "update", status |-> OK, id |-> docId, doc |-> doc]
             /\ expect' = Forget(expect, name, {docId})
     /\ UNCHANGED <<catalog, currentMapIndex, memVars, lruCache, now, log,
                    lockQueue, calls, commits, everDeleted, made,
                    activeTransactions>>

\* MapManager.delete on the shards ms, where shard k has the id
DeleteIn(ms, k, name, docId) ==
  [ms EXCEPT ![k] = [data |-> DsDelete(@.data, name, docId), size |-> @.size - 1]]

Delete(name, docId) ==
  LET k == findIdInMap(maps, name, docId)
  IN /\ IF k = 0
        THEN /\ ret' = [op |-> "delete", status |-> ERROR, name |-> name,
                        arg |-> docId]
             /\ UNCHANGED <<maps, lruCache, expect, everDeleted>>
        ELSE /\ maps' = DeleteIn(maps, k, name, docId)
             /\ lruCache' = removeFromLRU(lruCache, createLRUKey(name, docId))
             /\ ret' = [op |-> "delete", status |-> OK, name |-> name,
                        arg |-> docId, id |-> docId]
             /\ expect' = Forget(expect, name, {docId})
             /\ everDeleted' = TRUE
     /\ UNCHANGED <<catalog, currentMapIndex, memVars, now, log, lockQueue,
                    calls, commits, made, activeTransactions>>

\* deleteMany's loop: the shards after the ids are gone, and the ids deleted
RECURSIVE DeleteManyIn(_, _, _)
DeleteManyIn(ms, name, docIds) ==
  IF docIds = <<>> THEN [maps |-> ms, deleted |-> <<>>]
  ELSE LET k == findIdInMap(ms, name, Head(docIds))
           rest == DeleteManyIn(IF k = 0 THEN ms
                                ELSE DeleteIn(ms, k, name, Head(docIds)),
                                name, Tail(docIds))
       IN [maps |-> rest.maps,
           deleted |-> IF k = 0 THEN rest.deleted
                       ELSE <<Head(docIds)>> \o rest.deleted]


DeleteMany(name, docIds) ==
  LET res == DeleteManyIn(maps, name, docIds)
  IN /\ maps' = res.maps
     /\ ret' = [op |-> "deleteMany", status |-> OK, name |-> name,
                arg |-> docIds, deleted |-> res.deleted]
     /\ expect' = Forget(expect, name, Range(res.deleted))
     /\ everDeleted' = (everDeleted \/ res.deleted # <<>>)
     /\ UNCHANGED <<catalog, currentMapIndex, memVars, lruCache, now, log,
                    lockQueue, calls, commits, made, activeTransactions>>

\* a getMany that gives up at the first id that is not stored
RECURSIVE GetManyUntilMiss(_, _, _, _, _)
GetManyUntilMiss(ms, cache, name, docIds, results) ==
  IF docIds = <<>> THEN [lruCache |-> cache, results |-> results]
  ELSE LET id == Head(docIds)
           res == GetRes(ms, name, id)
       IN IF res.status = OK
          THEN GetManyUntilMiss(ms,
                         trackAccess(cache, createLRUKey(name, id),
                                     estimateDataSize(res.doc), now),
                         name, Tail(docIds),
                         IF \E j \in 1 .. Len(results) : results[j].id = id
                         THEN results
                         ELSE Append(results, [id |-> id, doc |-> res.doc]))
          ELSE [lruCache |-> cache, results |-> results]

\* MapManager.getMany: the documents found, keyed by id, in the order of the
\* first request of each id; every hit is tracked like a get
RECURSIVE GetManyIn(_, _, _, _, _)
GetManyIn(ms, cache, name, docIds, results) ==
  IF docIds = <<>> THEN [lruCache |-> cache, results |-> results]
  ELSE LET id == Head(docIds)
           res == GetRes(ms, name, id)
       IN IF res.status = OK
          THEN GetManyIn(ms,
                         trackAccess(cache, createLRUKey(name, id),
                                     estimateDataSize(res.doc), now),
                         name, Tail(docIds),
                         IF \E j \in 1 .. Len(results) : results[j].id = id
                         THEN results
                         ELSE Append(results, [id |-> id, doc |-> res.doc]))
          ELSE GetManyIn(ms, cache, name, Tail(docIds), results)

GetMany(name, docIds) ==
  LET res == GetManyIn(maps, lruCache, name, docIds, <<>>)
  IN /\ lruCache' = res.lruCache
     /\ ret' = [op |-> "getMany", status |-> OK, name |-> name, arg |-> docIds,
                data |-> res.results]
     /\ UNCHANGED <<catalog, storeVars, memVars, histVars, now, log, lockQueue,
                    calls, made, activeTransactions>>

\* InMemoryDataStore.replace of a stored document
DsReplace(ds, name, docId, doc) ==
  [ds EXCEPT ![name].map = Put(@, docId, doc)]

\* updateMany that goes on after an id no shard has
RECURSIVE UpdateManySkipping(_, _, _, _)
UpdateManySkipping(ms, name, updates, applied) ==
  IF updates = <<>> THEN [maps |-> ms, status |-> OK, applied |-> applied]
  ELSE LET u == Head(updates)
           k == findIdInMap(ms, name, u.id)
       IN IF k = 0
          THEN [UpdateManySkipping(ms, name, Tail(updates), applied)
                  EXCEPT !.status = ERROR]
          ELSE UpdateManySkipping([ms EXCEPT ![k].data =
                                      DsUpdate(@, name, u.id, u.doc)],
                                  name, Tail(updates), Append(applied, u))

\* MapManager.updateMany on the shards ms: update by update, until the
\* first id no shard has (applied: the updates made)
RECURSIVE UpdateManyIn(_, _, _, _)
UpdateManyIn(ms, name, updates, applied) ==
  IF updates = <<>> THEN [maps |-> ms, status |-> OK, applied |-> applied]
  ELSE LET u == Head(updates)
           k == findIdInMap(ms, name, u.id)
       IN IF k = 0 THEN [maps |-> ms, status |-> ERROR, applied |-> applied]
          ELSE UpdateManyIn([ms EXCEPT ![k].data = DsUpdate(@, name, u.id, u.doc)],
                            name, Tail(updates), Append(applied, u))

\* the Response of updateMany has no data, whatever the status is
UpdateMany(name, updates) ==
  LET res == UpdateManyIn(maps, name, updates, <<>>)
  IN /\ maps' = res.maps
     /\ ret' = [op |-> "updateMany", status |-> res.status, name |-> name,
                arg |-> updates]
     /\ expect' = Forget(expect, name, {res.applied[j].id :
                                          j \in 1 .. Len(res.applied)})
     /\ UNCHANGED <<catalog, currentMapIndex, memVars, lruCache, now, log,
                    lockQueue, calls, commits, everDeleted, made,
                    activeTransactions>>

\* MapManager.replaceMany on the shards ms
RECURSIVE ReplaceManyIn(_, _, _, _)
ReplaceManyIn(ms, name, updates, replaced) ==
  IF updates = <<>> THEN [maps |-> ms, status |-> OK, replaced |-> replaced]
  ELSE LET u == Head(updates)
           k == findIdInMap(ms, name, u.id)
       IN IF k = 0 THEN [maps |-> ms, status |-> ERROR, replaced |-> replaced]
          ELSE ReplaceManyIn([ms EXCEPT ![k].data = DsReplace(@, name, u.id, u.doc)],
                             name, Tail(updates), Append(replaced, u))

ReplaceMany(name, updates) ==
  LET res == ReplaceManyIn(maps, name, updates, <<>>)
  IN /\ maps' = res.maps
     /\ ret' = IF res.status = OK
               THEN [op |-> "replaceMany", status |-> OK, name |-> name,
                     arg |-> updates, replaced |-> res.replaced]
               ELSE [op |-> "replaceMany", status |-> ERROR, name |-> name,
                     arg |-> updates]
     /\ expect' = Forget(expect, name, {res.replaced[j].id :
                                          j \in 1 .. Len(res.replaced)})
     /\ UNCHANGED <<catalog, currentMapIndex, memVars, lruCache, now, log,
                    lockQueue, calls, commits, everDeleted, made,
                    activeTransactions>>

Find(name, where) ==
  /\ maps' = AfterGetAll(maps, name)
  /\ ret' = [op |-> "find", status |-> OK, name |-> name, where |-> where,
             data |-> FindRes(maps, name, where)]
  /\ UNCHANGED <<catalog, currentMapIndex, memVars, histVars, lruCache, now,
                 log, lockQueue, calls, made, activeTransactions>>

----------------------------------------------------------------------------
(* Asynchronous operations: set and setMany. A call waits for the mutex of *)
(* getCurrentMap, runs the lock body (which may rotate the shards) and     *)
(* then commits on the shard the lock body returned. The continuation of   *)
(* a call is queued before the next lock body, so no other lock body runs  *)
(* between a call's lock body and its commit; synchronous operations of    *)
(* other connections may.                                                  *)

InFlight(p) == calls[p].pc # "idle"

\* the next n documents a client makes
NextDocs(n) == [k \in 1 .. n |-> NewDoc(made + k - 1)]

\* the records InMemoryDataStore hands to Archive.addRecord, in call order
addRecords(lg, docs) == lg \o docs

\* set(name, doc) up to `await this.getCurrentMap()`
SetInvoke(p, name) ==
  /\ ~InFlight(p)
  /\ made < MaxDocs
  /\ made' = made + 1
  /\ calls' = [calls EXCEPT ![p] = [pc |-> "waitLock", op |-> "set", name |-> name,
                                    docs |-> NextDocs(1), rest |-> <<>>,
                                    allIds |-> <<>>, input |-> NextDocs(1),
                                    cur |-> 0]]
  /\ lockQueue' = Append(lockQueue, p)
  /\ UNCHANGED <<catalog, storeVars, memVars, histVars, lruCache, now, log, ret,
                 activeTransactions>>

\* What setMany does before it waits for the mutex, for caller p whose call
\* got the documents input, with the documents docs still to store and the
\* ids allIds stored by earlier chunks
\* (chunk: the chunk length of a call that is already chunked, else 0):
\* refuse, or queue the next batch
Submit(p, name, input, docs, allIds, chunk) ==
  LET first == IF chunk = 0 THEN Admit(usage, config, docs, FALSE) ELSE "chunk"
      size == IF chunk = 0 THEN finalChunkSize(usage, config, docs) ELSE chunk
      batch == IF first = "chunk" THEN SubSeq(docs, 1, Min(size, Len(docs))) ELSE docs
      verdict == IF first = "chunk" THEN Admit(usage, config, batch, TRUE) ELSE first
  IN IF verdict = "commit"
     THEN /\ calls' = [calls EXCEPT ![p] =
                         [pc |-> "waitLock", op |-> "setMany", name |-> name,
                          docs |-> batch,
                          rest |-> SubSeq(docs, Len(batch) + 1, Len(docs)),
                          allIds |-> allIds, input |-> input, cur |-> 0,
                          chunk |-> IF first = "chunk" THEN size ELSE 0]]
          /\ lockQueue' = Append(lockQueue, p)
          /\ activeTransactions' = activeTransactions \cup {p}
          /\ UNCHANGED <<isMonitoring, ret>>
     ELSE /\ calls' = [calls EXCEPT ![p] = IdleCall]
          /\ isMonitoring' = (isMonitoring /\ verdict # "refuse")
          /\ ret' = [op |-> "setMany", status |-> ERROR, name |-> name,
                     docs |-> input]
          /\ activeTransactions' = activeTransactions \ {p}
          /\ UNCHANGED lockQueue

\* setMany(name, docs) up to `await this.getCurrentMap()`
SetManyInvoke(p, name, n) ==
  /\ ~InFlight(p)
  /\ made + n <= MaxDocs
  /\ made' = made + n
  /\ Submit(p, name, NextDocs(n), NextDocs(n), <<>>, 0)
  /\ UNCHANGED <<catalog, storeVars, usage, config, emergencyBrakeCount,
                 lastEvictionTime, histVars, lruCache, now, log>>

\* the shard getCurrentMap appends once the active one is full
NewShard(current) ==
  [data |-> [c \in DOMAIN catalog.collections |->
               [map |-> EmptyMap,
                nextId |-> Inc(DsSize(current.data, c)),
                size |-> DsSize(current.data, c)]],
   size |-> 0]

NeedsRotation == maps[currentMapIndex].size >= MAX_ALLOCATED_ENTRIES

\* a lock whose queue keeps the caller whose body ran
LockBodyKeepsQueue(p) ==
  /\ lockQueue # <<>> /\ Head(lockQueue) = p
  /\ calls[p].pc = "waitLock"
  /\ \A q \in Callers : calls[q].pc # "locked"
  /\ NeedsRotation => Len(maps) < MaxShards
  /\ lockQueue' = lockQueue
  /\ IF NeedsRotation
     THEN /\ currentMapIndex' = currentMapIndex + 1
          /\ maps' = Append(maps, NewShard(maps[currentMapIndex]))
     ELSE UNCHANGED <<maps, currentMapIndex>>
  /\ calls' = [calls EXCEPT ![p].pc = "locked", ![p].cur = currentMapIndex']
  /\ UNCHANGED <<catalog, memVars, histVars, lruCache, now, log, ret, made,
                 activeTransactions>>

\* the body getCurrentMap runs under the mutex
LockBody(p) ==
  /\ lockQueue # <<>> /\ Head(lockQueue) = p
  /\ calls[p].pc = "waitLock"
  /\ \A q \in Callers : calls[q].pc # "locked"
  /\ NeedsRotation => Len(maps) < MaxShards
  /\ lockQueue' = Tail(lockQueue)
  /\ IF NeedsRotation
     THEN /\ currentMapIndex' = currentMapIndex + 1
          /\ maps' = Append(maps, NewShard(maps[currentMapIndex]))
     ELSE UNCHANGED <<maps, currentMapIndex>>
  /\ calls' = [calls EXCEPT ![p].pc = "locked", ![p].cur = currentMapIndex']
  /\ UNCHANGED <<catalog, memVars, histVars, lruCache, now, log, ret, made,
                 activeTransactions>>

\* set after the await: size++, InMemoryDataStore.set, trackAccess
SetCommit(p) ==
  LET c == calls[p]
      k == c.cur
      doc == c.docs[1]
      id == DsSetId(maps[k].data, c.name)
  IN /\ c.pc = "locked" /\ c.op = "set"
     /\ calls' = [calls EXCEPT ![p] = IdleCall]
     /\ IF ensure(c.name)
        THEN /\ maps' = [maps EXCEPT ![k] = [data |-> DsSet(@.data, c.name, doc),
                                              size |-> @.size + 1]]
             /\ log' = addRecords(log, <<doc>>)
             /\ lruCache' = trackAccess(lruCache, createLRUKey(c.name, id),
                                        estimateDataSize(doc), now)
             /\ ret' = [op |-> "set", status |-> OK, name |-> c.name,
                        docs |-> c.input, id |-> id]
             /\ commits' = Append(commits, [name |-> c.name, id |-> id, doc |-> doc])
             /\ expect' = expect \cup {<<c.name, id, doc>>}
        ELSE /\ maps' = [maps EXCEPT ![k].size = @ + 1]
             /\ ret' = [op |-> "set", status |-> ERROR, name |-> c.name,
                        docs |-> c.input]
             /\ UNCHANGED <<log, lruCache, commits, expect>>
     /\ UNCHANGED <<catalog, currentMapIndex, memVars, now, lockQueue,
                    everDeleted, made, activeTransactions>>

\* the LRU entries setMany tracks
LruEntries(name, ids, docs) ==
  [k \in 1 .. Len(ids) |-> [key |-> createLRUKey(name, ids[k]),
                            size |-> estimateDataSize(docs[k])]]

\* setMany after the await: size += n, InMemoryDataStore.setMany,
\* trackAccessBulk; a chunked call then submits its next chunk
SetManyCommit(p) ==
  LET c == calls[p]
      k == c.cur
      ids == DsSetManyIds(maps[k].data, c.name, c.docs)
      allIds == c.allIds \o ids
  IN /\ c.pc = "locked" /\ c.op = "setMany"
     /\ IF ensure(c.name)
        THEN /\ maps' = [maps EXCEPT ![k] =
                           [data |-> DsSetMany(@.data, c.name, c.docs),
                            size |-> @.size + Len(c.docs)]]
             /\ log' = addRecords(log, c.docs)
             /\ lruCache' = trackAccessBulk(lruCache,
                                            LruEntries(c.name, ids, c.docs), now)
             /\ commits' = commits \o [j \in 1 .. Len(ids) |->
                                         [name |-> c.name, id |-> ids[j],
                                          doc |-> c.docs[j]]]
             /\ expect' = expect \cup {<<c.name, ids[j], c.docs[j]>> :
                                         j \in 1 .. Len(ids)}
             /\ IF c.rest = <<>>
                THEN /\ calls' = [calls EXCEPT ![p] = IdleCall]
                     /\ ret' = [op |-> "setMany", status |-> OK, name |-> c.name,
                                docs |-> c.input, ids |-> allIds,
                                chunk |-> c.chunk]
                     /\ activeTransactions' = activeTransactions \ {p}
                     /\ UNCHANGED <<isMonitoring, lockQueue>>
                ELSE Submit(p, c.name, c.input, c.rest, allIds, c.chunk)
        ELSE /\ maps' = [maps EXCEPT ![k].size = @ + Len(c.docs)]
             /\ calls' = [calls EXCEPT ![p] = IdleCall]
             /\ ret' = [op |-> "setMany", status |-> ERROR, name |-> c.name,
                        docs |-> c.input]
             /\ activeTransactions' = activeTransactions \ {p}
             /\ UNCHANGED <<log, lruCache, commits, expect, isMonitoring, lockQueue>>
     /\ UNCHANGED <<catalog, currentMapIndex, usage, config, emergencyBrakeCount,
                    lastEvictionTime, now, everDeleted, made>>

----------------------------------------------------------------------------
(* The environment and the sampler *)

\* Deno.memoryUsage() changes
MemoryChange(u) ==
  /\ u # usage
  /\ usage' = u
  /\ UNCHANGED <<catalog, storeVars, isMonitoring, config, emergencyBrakeCount,
                 lastEvictionTime, histVars, lruCache, now, log, lockQueue,
                 calls, ret, made, activeTransactions>>

\* time passes
Tick ==
  /\ now < StartTime + MaxTicks * TickMs
  /\ now' = now + TickMs
  /\ UNCHANGED <<catalog, storeVars, memVars, histVars, lruCache, log,
                 lockQueue, calls, ret, made, activeTransactions>>

startMonitoring ==
  /\ ~isMonitoring
  /\ isMonitoring' = TRUE
  /\ UNCHANGED <<catalog, storeVars, usage, config, emergencyBrakeCount,
                 lastEvictionTime, histVars, lruCache, now, log, lockQueue,
                 calls, ret, made, activeTransactions>>

\* the loop of performLRUEviction over the keys to evict
RECURSIVE EvictKeys(_, _, _)
EvictKeys(ms, cache, keys) ==
  IF keys = <<>> THEN [maps |-> ms, lruCache |-> cache, evicted |-> {}]
  ELSE LET key == parseLRUKey(Head(keys))
           k == IF key.name # "" /\ key.ok
                THEN findIdInMap(ms, key.name, key.docId) ELSE 0
           rest == EvictKeys(IF k = 0 THEN ms
                             ELSE DeleteIn(ms, k, key.name, key.docId),
                             IF k = 0 THEN cache
                             ELSE removeFromLRU(cache, Head(keys)),
                             Tail(keys))
       IN IF k = 0 THEN rest
          ELSE [rest EXCEPT !.evicted = @ \cup {<<key.name, key.docId>>}]

\* performLRUEviction: what it leaves of the shards, the recency index, the
\* brake and the sampler
performLRUEviction ==
  LET braking == now - lastEvictionTime < 1000
      count == IF braking THEN emergencyBrakeCount + 1 ELSE 0
      stats == getMemoryStats(usage, config)
      targetBytes == stats.rss \div 5
      keysToEvict == getLRUKeysToEvict(lruCache, config, targetBytes)
      res == EvictKeys(maps, lruCache, keysToEvict)
      same == [maps |-> maps, lruCache |-> lruCache, evicted |-> {}]
  IN IF braking /\ count > 3
     THEN same @@ [count |-> count, last |-> lastEvictionTime, monitoring |-> FALSE,
                   selected |-> <<>>]
     ELSE IF keysToEvict = <<>>
     THEN same @@ [count |-> count, last |-> now, monitoring |-> ~stats.isOverLimit,
                   selected |-> <<>>]
     ELSE res @@ [count |-> count, last |-> now, monitoring |-> TRUE,
                  selected |-> keysToEvict]

\* one firing of the sampler's interval: checkMemoryUsage
Sample ==
  LET stats == getMemoryStats(usage, config)
      ev == performLRUEviction
  IN /\ isMonitoring
     /\ emergencyBrakeCount < MaxBrake
     /\ IF stats.atThreshold
        THEN /\ maps' = ev.maps
             /\ lruCache' = ev.lruCache
             /\ emergencyBrakeCount' = ev.count
             /\ lastEvictionTime' = ev.last
             /\ isMonitoring' = ev.monitoring
             /\ expect' = {o \in expect : <<o[1], o[2]>> \notin ev.evicted}
             /\ everDeleted' = (everDeleted \/ ev.evicted # {})
        ELSE UNCHANGED <<maps, lruCache, emergencyBrakeCount, lastEvictionTime,
                         isMonitoring, expect, everDeleted>>
     /\ activeTransactions' = IF stats.isOverLimit THEN {} ELSE activeTransactions
     /\ ret' = [op |-> "sample", status |-> OK]
     /\ UNCHANGED <<catalog, currentMapIndex, usage, config, now, log,
                    lockQueue, calls, commits, made>>

\* evaluateOperators(value, ops) asked
Evaluate(value, ops) ==
  /\ ret' = [op |-> "evaluateOperators", status |-> OK, value |-> value,
             ops |-> ops, data |-> evaluateOperators(value, ops)]
  /\ UNCHANGED <<catalog, storeVars, memVars, histVars, lruCache, now, log,
                 lockQueue, calls, made, activeTransactions>>

\* matchesWhere(doc, where) asked
Match(doc, where) ==
  /\ ret' = [op |-> "matchesWhere", status |-> OK, doc |-> doc,
             where |-> where, data |-> matchesWhere(doc, where)]
  /\ UNCHANGED <<catalog, storeVars, memVars, histVars, lruCache, now, log,
                 lockQueue, calls, made, activeTransactions>>

\* canAllocate(x) asked under the readings u and the limits cfg
AllocCheck(u, cfg, x) ==
  /\ ret' = [op |-> "canAllocate", status |-> OK, rss |-> u.rss,
             heapUsed |-> u.heapUsed, maxRSSBytes |-> cfg.maxRSSBytes,
             maxHeapBytes |-> cfg.maxHeapBytes, x |-> x,
             data |-> canAllocate(u, cfg, x)]
  /\ UNCHANGED <<catalog, storeVars, memVars, histVars, lruCache, now, log,
                 lockQueue, calls, made, activeTransactions>>

\* MemoryManager.updateConfig({evictionPolicy: policy})
updateConfig(policy) ==
  /\ policy # config.evictionPolicy
  /\ config' = [config EXCEPT !.evictionPolicy = policy]
  /\ UNCHANGED <<catalog, storeVars, isMonitoring, usage, emergencyBrakeCount,
                 lastEvictionTime, histVars, lruCache, now, log, lockQueue,
                 calls, ret, made, activeTransactions>>

\* updateConfig({ maxRSSBytes, maxHeapBytes })
updateConfigLimits(maxRSSBytes, maxHeapBytes) ==
  /\ <<maxRSSBytes, maxHeapBytes>> # <<config.maxRSSBytes, config.maxHeapBytes>>
  /\ config' = [config EXCEPT !.maxRSSBytes = maxRSSBytes,
                              !.maxHeapBytes = maxHeapBytes]
  /\ UNCHANGED <<catalog, storeVars, isMonitoring, usage, emergencyBrakeCount,
                 lastEvictionTime, histVars, lruCache, now, log, lockQueue,
                 calls, ret, made, activeTransactions>>

\* MemoryManager.trackAccess(key, size)
TrackAccess(key, size) ==
  /\ lruCache' = trackAccess(lruCache, key, size, now)
  /\ UNCHANGED <<catalog, storeVars, memVars, histVars, now, log, lockQueue,
                 calls, ret, made, activeTransactions>>

\* MemoryManager.removeFromLRU(key)
RemoveFromLRU(key) ==
  /\ LruIndex(lruCache, key) # 0
  /\ lruCache' = removeFromLRU(lruCache, key)
  /\ UNCHANGED <<catalog, storeVars, memVars, histVars, now, log, lockQueue,
                 calls, ret, made, activeTransactions>>

\* MemoryManager.getLRUKeysToEvict(targetBytes): sorts a copy of the entries
KeysToEvict(targetBytes) ==
  /\ ret' = [op |-> "getLRUKeysToEvict", status |-> OK, arg |-> targetBytes,
             data |-> getLRUKeysToEvict(lruCache, config, targetBytes)]
  /\ UNCHANGED <<catalog, storeVars, memVars, histVars, lruCache, now, log,
                 lockQueue, calls, made, activeTransactions>>

\* catalog.get(name)
CatalogGet(name) ==
  /\ ret' = [op |-> "catalog.get", name |-> name] @@ catalogGet(catalog, name)
  /\ UNCHANGED <<catalog, storeVars, memVars, histVars, lruCache, now, log,
                 lockQueue, calls, made, activeTransactions>>

\* catalog.exists(name)
CatalogExists(name) ==
  /\ ret' = [op |-> "catalog.exists", name |-> name, status |-> OK,
             data |-> catalogExists(catalog, name)]
  /\ UNCHANGED <<catalog, storeVars, memVars, histVars, lruCache, now, log,
                 lockQueue, calls, made, activeTransactions>>

\* catalog.set(name, table)
CatalogSet(name, table) ==
  /\ catalog' = catalogSet(catalog, name, table)
  /\ ret' = [op |-> "catalog.set", name |-> name, arg |-> table, status |-> OK]
  /\ UNCHANGED <<storeVars, memVars, histVars, lruCache, now, log, lockQueue,
                 calls, made, activeTransactions>>

\* catalog.update(name, table)
CatalogUpdate(name, table) ==
  /\ catalog' = catalogUpdate(catalog, name, table)
  /\ ret' = [op |-> "catalog.update", name |-> name, arg |-> table,
             status |-> IF catalogExists(catalog, name) THEN OK ELSE ERROR]
  /\ UNCHANGED <<storeVars, memVars, histVars, lruCache, now, log, lockQueue,
                 calls, made, activeTransactions>>

\* catalog.delete(name)
CatalogDelete(name) ==
  /\ catalog' = catalogDelete(catalog, name)
  /\ ret' = [op |-> "catalog.delete", name |-> name,
             status |-> IF catalogExists(catalog, name) THEN OK ELSE ERROR]
  /\ UNCHANGED <<storeVars, memVars, histVars, lruCache, now, log, lockQueue,
                 calls, made, activeTransactions>>

\* setManyChunked asked for the chunk length of a batch whose first
\* document is estimated at sampleSize bytes, with the limits of the source
ChunkLength(u, cfg, sampleSize) ==
  /\ ret' = [op |-> "chunkSize", status |-> OK,
             available |-> cfg.maxRSSBytes - getMemoryStats(u, cfg).rss,
             sampleSize |-> sampleSize,
             data |-> chunkLength(cfg.maxRSSBytes - getMemoryStats(u, cfg).rss,
                                  sampleSize, SourceLimits)]
  /\ UNCHANGED <<catalog, storeVars, memVars, histVars, lruCache, now, log,
                 lockQueue, calls, made, activeTransactions>>

----------------------------------------------------------------------------
(* Mutex: lock(fn) chains fn onto the promise of the call before it.        *)
(* mutex[k] is the k-th call: what its fn does (fn), how far fn got (body), *)
(* the promise `run` returned to the caller, and the promise the call left  *)
(* in this.mutex (chain)                                                    *)

\* fn().then(resolveFn): a rejection passes on into this.mutex
ChainAfterResolveOnly(outcome) ==
  IF outcome = "rejected" THEN "rejected" ELSE "fulfilled"

\* fn().then(resolveFn, rejectFn) returns normally whatever fn's promise
\* did, so the promise left in this.mutex is fulfilled
ChainAfter(outcome) == "fulfilled"

\* the promise this.mutex held when the k-th call chained onto it
Previous(k) == IF k = 1 THEN "fulfilled" ELSE mutex[k - 1].chain

\* lock(fn): create run, chain fn onto this.mutex, return run
MutexLock(fn) ==
  /\ Len(mutex) < MaxLocks
  /\ mutex' = Append(mutex, [fn |-> fn, body |-> "queued", run |-> "pending",
                             chain |-> "pending"])
  /\ UNCHANGED <<engineVars, conns, unitVars, monitor, callbacks>>

\* the promise before the k-th call is fulfilled: its callback calls fn()
BodyStart(k) ==
  /\ mutex[k].body = "queued" /\ Previous(k) = "fulfilled"
  /\ mutex' = [mutex EXCEPT ![k].body = "running"]
  /\ UNCHANGED <<engineVars, conns, unitVars, monitor, callbacks>>

\* the promise fn() returned settles
BodySettle(k) ==
  /\ mutex[k].body = "running"
  /\ mutex' = [mutex EXCEPT ![k].body = mutex[k].fn]
  /\ UNCHANGED <<engineVars, conns, unitVars, monitor, callbacks>>

\* the reaction to fn()'s promise: resolveFn or rejectFn settles run, and
\* the promise in this.mutex settles
Release(k) ==
  /\ mutex[k].body \in {"resolved", "rejected"} /\ mutex[k].run = "pending"
  /\ mutex' = [mutex EXCEPT ![k].run = mutex[k].body,
                            ![k].chain = ChainAfter(mutex[k].body)]
  /\ UNCHANGED <<engineVars, conns, unitVars, monitor, callbacks>>

----------------------------------------------------------------------------
(* MemoryManager: the sampling timer and the callback registries.           *)
(* monitor.timers are the interval timers of the runtime that are active,   *)
(* monitor.created counts the timers ever created, monitor.last is the last *)
(* call of startMonitoring or stopMonitoring. A registry is the Set in      *)
(* insertion order; callbacks.invoked counts, per registry and callback,    *)
(* the invocations during the last sample; callbacks.handles are the        *)
(* unsubscribe functions handed out.                                        *)

\* a startMonitoring that sets a timer whenever it is called
startAlways(m) ==
  [m EXCEPT !.isMonitoring = TRUE, !.checkInterval = m.created + 1,
            !.timers = @ \cup {m.created + 1}, !.created = @ + 1]

\* startMonitoring(): setInterval returns the id of a new timer
monitorStart(m) ==
  IF m.isMonitoring THEN m
  ELSE [m EXCEPT !.isMonitoring = TRUE, !.checkInterval = m.created + 1,
                 !.timers = @ \cup {m.created + 1}, !.created = @ + 1]

\* stopMonitoring(): clearInterval(checkInterval)
monitorStop(m) ==
  IF ~m.isMonitoring THEN m
  ELSE IF m.checkInterval # 0
       THEN [m EXCEPT !.isMonitoring = FALSE, !.timers = @ \ {m.checkInterval},
                      !.checkInterval = 0]
       ELSE [m EXCEPT !.isMonitoring = FALSE]

\* a forEach without try/catch: the first callback that throws ends it
RECURSIVE forEachUntilThrow(_, _)
forEachUntilThrow(registry, done) ==
  IF registry = <<>> THEN done
  ELSE LET cb == Head(registry)
           next == [done EXCEPT !.count[cb] = @ + 1,
                                !.stopped = @ \/ cb = Stopper]
       IN IF cb = Thrower THEN next ELSE forEachUntilThrow(Tail(registry), next)

\* registry.forEach(callback => { try { callback() } catch { ... } }): the
\* invocations per callback, and whether one of them stopped the sampler
RECURSIVE forEach(_, _)
forEach(registry, done) ==
  IF registry = <<>> THEN done
  ELSE LET cb == Head(registry)
       IN forEach(Tail(registry),
                  [done EXCEPT !.count[cb] = @ + 1,
                               !.stopped = @ \/ cb = Stopper])

NotInvoked == [count |-> [cb \in Cbs |-> 0], stopped |-> FALSE]

\* startMonitoring()
StartMonitoring ==
  /\ monitor.created < MaxTimers
  /\ monitor' = [monitorStart(monitor) EXCEPT !.last = "start"]
  /\ UNCHANGED <<engineVars, conns, unitVars, mutex, callbacks>>

\* stopMonitoring()
StopMonitoring ==
  /\ monitor' = [monitorStop(monitor) EXCEPT !.last = "stop"]
  /\ UNCHANGED <<engineVars, conns, unitVars, mutex, callbacks>>

\* onEviction(cb), onEmergency(cb): Set.add, and the unsubscribe function
Register(kind, cb) ==
  /\ callbacks' = [callbacks EXCEPT
                     ![kind] = IF cb \in Range(@) THEN @ ELSE Append(@, cb),
                     !.handles = @ \cup {<<kind, cb>>}]
  /\ UNCHANGED <<engineVars, conns, unitVars, mutex, monitor>>

\* the function onEviction(cb) or onEmergency(cb) returned is called
Unsubscribe(kind, cb) ==
  /\ <<kind, cb>> \in callbacks.handles
  /\ callbacks' = [callbacks EXCEPT ![kind] = SelectSeq(@, LAMBDA x : x # cb)]
  /\ UNCHANGED <<engineVars, conns, unitVars, mutex, monitor>>

\* a sampling timer fires: checkMemoryUsage, triggerEviction,
\* triggerEmergency
CheckMemoryUsage ==
  LET stats == getMemoryStats(usage, config)
      eviction == IF stats.atThreshold THEN forEach(callbacks.eviction, NotInvoked)
                  ELSE NotInvoked
      emergency == IF stats.isOverLimit THEN forEach(callbacks.emergency, NotInvoked)
                   ELSE NotInvoked
  IN /\ monitor.timers # {}
     /\ callbacks.samples < MaxSamples
     /\ callbacks' = [callbacks EXCEPT
                        !.invoked = [eviction |-> eviction.count,
                                     emergency |-> emergency.count],
                        !.samples = @ + 1]
     /\ monitor' = IF eviction.stopped \/ emergency.stopped
                   THEN [monitorStop(monitor) EXCEPT !.last = "stop"]
                   ELSE monitor
     /\ UNCHANGED <<engineVars, conns, unitVars, mutex>>

\* parseLRUKey(createLRUKey(name, docId)) asked
ParseKey(name, docId) ==
  /\ ret' = [op |-> "parseLRUKey", status |-> OK, name |-> name, arg |-> docId,
             key |-> createLRUKey(name, docId),
             data |-> parseLRUKey(createLRUKey(name, docId))]
  /\ UNCHANGED <<catalog, storeVars, memVars, histVars, lruCache, now, log,
                 lockQueue, calls, made, activeTransactions>>

----------------------------------------------------------------------------
(* Archive. archive.written are the bytes handed to file.writeSync, in      *)
(* order, archive.writes counts the writeSync calls, and archive.added are  *)
(* the records handed to addRecord.                                         *)

\* the bytes of the records of buf, one after the other
RECURSIVE Flatten(_)
Flatten(buf) == IF buf = <<>> THEN <<>> ELSE Head(buf) \o Flatten(Tail(buf))

\* joined: a Uint8Array of bufSize zero bytes with every chunk set at its offset
Joined(buf, bufSize) ==
  LET flat == Flatten(buf)
  IN [i \in 1 .. bufSize |-> IF i <= Len(flat) THEN flat[i] ELSE 0]

\* flush: this.file?.writeSync(joined) writes only when there is a file
flush(a) ==
  IF Len(a.buf) = 0 THEN a
  ELSE LET wrote == IF a.file = Null THEN a
                    ELSE [a EXCEPT !.written = @ \o Joined(a.buf, a.bufSize),
                                   !.writes = @ + 1]
       IN [wrote EXCEPT !.buf = <<>>, !.bufSize = 0]

AddRecord(content) ==
  LET pushed == [archive EXCEPT !.buf = Append(@, content),
                                !.bufSize = @ + Len(content),
                                !.added = Append(@, content)]
  IN /\ Len(archive.added) < MaxRecords
     /\ archive' = IF pushed.bufSize >= FLUSH_BYTES THEN flush(pushed) ELSE pushed
     /\ UNCHANGED <<engineVars, conns, classVars, client, queue>>

\* close(): flush, then this.file?.close()
ArchiveClose ==
  /\ archive' = flush(archive)
  /\ UNCHANGED <<engineVars, conns, classVars, client, queue>>

----------------------------------------------------------------------------
(* Client.send on the shared connection. client.out are the buffers handed  *)
(* to connection.write in call order, client.inb the pieces of the          *)
(* responses not read yet, client.reads the callers with a connection.read  *)
(* pending, oldest first. A piece is what one write hands over: the 4-byte  *)
(* length or one chunk of the body.                                         *)

Piece(p, part, k) == [from |-> p, part |-> part, k |-> k]

\* the frame of p's request and of the response to it
RequestFrame(p) ==
  <<Piece(p, "length", 0)>> \o [k \in 1 .. BodyChunks(p) |-> Piece(p, "chunk", k)]
ResponseFrame(p) == <<Piece(p, "responseLength", 0), Piece(p, "response", 0)>>

\* send up to its first await: the length is written
Send(p) ==
  /\ client.calls[p].pc = "idle"
  /\ client' = [client EXCEPT !.out = Append(@, Piece(p, "length", 0)),
                              !.calls[p].pc = "lengthWritten"]
  /\ UNCHANGED <<engineVars, conns, classVars, archive, queue>>

\* sendDataInChunks writes the chunk at offset: after the length, and after
\* the setTimeout(0) between two chunks
WriteChunk(p) ==
  LET c == client.calls[p]
  IN /\ c.pc \in {"lengthWritten", "delay"}
     /\ c.offset < BodyChunks(p)
     /\ client' = [client EXCEPT !.out = Append(@, Piece(p, "chunk", c.offset + 1)),
                                 !.calls[p].pc = "chunkWritten"]
     /\ UNCHANGED <<engineVars, conns, classVars, archive, queue>>

\* the write of a chunk returned: wait for the timer when data is left, else
\* readExactly(4) asks the connection for the response length
ChunkWritten(p) ==
  LET c == client.calls[p]
      offset == c.offset + 1
  IN /\ c.pc = "chunkWritten"
     /\ client' = IF offset < BodyChunks(p)
                  THEN [client EXCEPT !.calls[p].offset = offset,
                                      !.calls[p].pc = "delay"]
                  ELSE [client EXCEPT !.calls[p].offset = offset,
                                      !.calls[p].pc = "readLength",
                                      !.reads = Append(@, p)]
     /\ UNCHANGED <<engineVars, conns, classVars, archive, queue>>

\* the oldest pending connection.read returns the next piece: after the
\* length readDataInChunks asks for the body, after the body send returns
\* what it decoded
ReadReturns ==
  LET p == Head(client.reads)
      c == client.calls[p]
      got == Append(c.got, Head(client.inb))
  IN /\ client.reads # <<>> /\ client.inb # <<>>
     /\ client' = IF c.pc = "readLength"
                  THEN [client EXCEPT !.inb = Tail(@),
                                      !.reads = Append(Tail(@), p),
                                      !.calls[p].got = got,
                                      !.calls[p].pc = "readData"]
                  ELSE [client EXCEPT !.inb = Tail(@),
                                      !.reads = Tail(@),
                                      !.calls[p].got = got,
                                      !.calls[p].pc = "returned"]
     /\ UNCHANGED <<engineVars, conns, classVars, archive, queue>>

\* the server has read a whole frame from the connection and answers it; it
\* waits while what follows a length is not the body it announces
ServerAnswers ==
  \E p \in Senders :
    LET n == Len(RequestFrame(p))
    IN /\ client.served + n <= Len(client.out)
       /\ SubSeq(client.out, client.served + 1, client.served + n) = RequestFrame(p)
       /\ client' = [client EXCEPT !.served = @ + n,
                                   !.inb = @ \o ResponseFrame(p)]
       /\ UNCHANGED <<engineVars, conns, classVars, archive, queue>>

----------------------------------------------------------------------------
(* BackgroundQueue. queue.jobs are the jobs in the order added, each with   *)
(* its state (queued, running, settled, done) and how its promise settled;  *)
(* queue.queue holds the positions of the jobs not started yet, and         *)
(* queue.started the jobs in the order in which schedule called them.       *)

\* schedule(): start jobs from the front of the queue while there is room
RECURSIVE schedule(_)
schedule(q) ==
  IF q.running < maxConcurrent /\ Len(q.queue) > 0
  THEN LET job == Head(q.queue)
       IN schedule([q EXCEPT !.queue = Tail(@),
                             !.running = @ + 1,
                             !.jobs[job].state = "running",
                             !.started = Append(@, job)])
  ELSE q

\* a finally that only runs for jobs that resolved
finallyIfResolved(q, job) ==
  IF q.jobs[job].outcome = "rejected"
  THEN [q EXCEPT !.jobs[job].state = "done"]
  ELSE schedule([q EXCEPT !.running = @ - 1, !.jobs[job].state = "done"])

\* .catch(...).finally(() => { this.running--; this.schedule(); })
finally(q, job) ==
  schedule([q EXCEPT !.running = @ - 1, !.jobs[job].state = "done"])

\* add(job)
QueueAdd ==
  LET job == Len(queue.jobs) + 1
  IN /\ job <= MaxJobs
     /\ queue' = schedule([queue EXCEPT
                             !.queue = Append(@, job),
                             !.jobs = Append(@, [state |-> "queued",
                                                 outcome |-> "pending"])])
     /\ UNCHANGED <<engineVars, conns, classVars, archive, client>>

\* the promise of a running job resolves or rejects
JobSettles(job, outcome) ==
  /\ job \in 1 .. Len(queue.jobs)
  /\ queue.jobs[job].state = "running"
  /\ queue' = [queue EXCEPT !.jobs[job] = [state |-> "settled", outcome |-> outcome]]
  /\ UNCHANGED <<engineVars, conns, classVars, archive, client>>

\* the catch and finally callbacks of a settled job run
JobFinally(job) ==
  /\ job \in 1 .. Len(queue.jobs)
  /\ queue.jobs[job].state = "settled"
  /\ queue' = finally(queue, job)
  /\ UNCHANGED <<engineVars, conns, classVars, archive, client>>

----------------------------------------------------------------------------
(* ProtocolV2.handleConnection, one step per await *)

\* a client writes a frame to its connection
ClientSend(c, f) ==
  /\ conns[c].open
  /\ SeqSum([k \in 1 .. Cardinality(Conns) |-> conns[k].sent]) < MaxFrames
  /\ conns' = [conns EXCEPT ![c].inbox = Append(@, f @@ [n |-> conns[c].sent + 1]),
                            ![c].sent = @ + 1]
  /\ UNCHANGED engineVars

\* a length check that refuses a frame of exactly maxMessageSize bytes
TooLargeInclusive(length) == length >= maxMessageSize

\* messageLength > this.maxMessageSize
TooLarge(length) == length > maxMessageSize

\* an error handler that logs and goes on reading
CloseLeavesOpen(c, seen) == [conns EXCEPT ![c].pc = "read", ![c].seen = seen]

\* an error thrown in the loop: catch, log, finally connection.close()
\* (seen: the frames processMessage got so far)
Close(c, seen) ==
  [conns EXCEPT ![c].open = FALSE, ![c].pc = "closed", ![c].seen = seen]

\* readExactly(connection, 4) returns: skip an empty frame, refuse a frame
\* that is too large, or start reading the payload
ReadLength(c) ==
  LET f == Head(conns[c].inbox)
  IN /\ conns[c].open /\ conns[c].pc = "read"
     /\ conns[c].inbox # <<>>
     /\ IF f.length = 0
        THEN conns' = [conns EXCEPT ![c].inbox = Tail(@), ![c].zero = @ \cup {f.n}]
        ELSE IF TooLarge(f.length)
        THEN conns' = [Close(c, conns[c].seen) EXCEPT ![c].inbox = Tail(@),
                                                     ![c].req = f]
        ELSE conns' = [conns EXCEPT ![c].inbox = Tail(@), ![c].req = f,
                                   ![c].pc = "payload"]
     /\ UNCHANGED engineVars

\* the frame of connection c as processMessage got it, dispatched to op
Seen(c, op) ==
  Append(conns[c].seen,
         [n |-> conns[c].req.n, length |-> conns[c].req.length,
          action |-> conns[c].req.msg.action, op |-> op])

\* processMessage returned res: sendResponse is next
Served(c, op, res) ==
  [conns EXCEPT ![c].pc = "prefix", ![c].resp = res, ![c].seen = Seen(c, op)]

\* processMessage awaits the engine
Awaiting(c, op) == [conns EXCEPT ![c].pc = "await", ![c].seen = Seen(c, op)]

\* readMessageData returns and processMessage decodes the payload and
\* calls the engine; an action without a case throws
Dispatch(c) ==
  LET r == conns[c].req.msg
  IN /\ conns[c].open /\ conns[c].pc = "payload"
     /\ \/ /\ r.action = "create"
           /\ SetInvoke(c, r.collection)
           /\ conns' = Awaiting(c, calls'[c].op)
        \/ /\ r.action = "get"
           /\ Get(r.collection, r.payload.docId)
           /\ conns' = Served(c, ret'.op, ret')
        \/ /\ r.action = "update"
           /\ Update(r.collection, r.payload.query.docId, r.payload.update)
           /\ conns' = Served(c, ret'.op, ret')
        \/ /\ r.action = "delete"
           /\ Delete(r.collection, r.payload.docId)
           /\ conns' = Served(c, ret'.op, ret')
        \/ /\ r.action = "createMany"
           /\ SetManyInvoke(c, r.collection, r.payload.n)
           /\ conns' = IF calls'[c].pc = "idle" THEN Served(c, ret'.op, ret')
                       ELSE Awaiting(c, calls'[c].op)
        \/ /\ r.action = "getMany"
           /\ GetMany(r.collection, r.payload.ids)
           /\ conns' = Served(c, ret'.op, ret')
        \/ /\ r.action = "updateMany"
           /\ UpdateMany(r.collection, r.payload.updates)
           /\ conns' = Served(c, ret'.op, ret')
        \/ /\ r.action = "find"
           /\ Find(r.collection, r.payload.where)
           /\ conns' = Served(c, ret'.op, ret')
        \/ /\ r.action \notin KnownActions
           /\ conns' = Close(c, Seen(c, "none"))
           /\ UNCHANGED engineVars

\* getCurrentMap's lock body runs for the call of connection c
Locked(c) == LockBody(c) /\ UNCHANGED conns

\* mapManager.set resolves: processMessage returns its Response
Created(c) ==
  /\ SetCommit(c)
  /\ conns' = [conns EXCEPT ![c].pc = "prefix", ![c].resp = ret']

\* a batch of mapManager.setMany is stored: the call resolves unless a
\* further chunk is queued
CreatedMany(c) ==
  /\ SetManyCommit(c)
  /\ conns' = IF calls'[c].pc = "idle"
              THEN [conns EXCEPT ![c].pc = "prefix", ![c].resp = ret']
              ELSE conns

\* a sendResponse after whose length prefix the loop reads again
SendPrefixThenRead(c) ==
  /\ conns[c].open /\ conns[c].pc = "prefix"
  /\ conns' = [conns EXCEPT ![c].pc = "read",
                            ![c].out = Append(@, [n |-> conns[c].req.n,
                                                  resp |-> conns[c].resp,
                                                  complete |-> FALSE])]
  /\ UNCHANGED engineVars

\* sendResponse writes the 4-byte length prefix
SendPrefix(c) ==
  /\ conns[c].open /\ conns[c].pc = "prefix"
  /\ conns' = [conns EXCEPT ![c].pc = "body",
                            ![c].out = Append(@, [n |-> conns[c].req.n,
                                                  resp |-> conns[c].resp,
                                                  complete |-> FALSE])]
  /\ UNCHANGED engineVars

\* sendDataInChunks has written the whole body: the loop reads again
SendBody(c) ==
  /\ conns[c].open /\ conns[c].pc = "body"
  /\ conns' = [conns EXCEPT ![c].pc = "read",
                            ![c].out[Len(conns[c].out)].complete = TRUE]
  /\ UNCHANGED engineVars

----------------------------------------------------------------------------
(* Specifications *)

\* the id lists clients pass to bulk operations
IdLists(I) ==
  {<<i>> : i \in I} \cup {<<x[1], x[2]>> : x \in {y \in I \X I : y[1] < y[2]}}

\* the operations of the clients on the collections N and the ids I, through
\* the callers P
Clients(P, N, I) ==
  \/ \E name \in N, docId \in I : Get(name, docId) /\ Offline
  \/ \E name \in N, docId \in I : Update(name, docId, Patch) /\ Offline
  \/ \E name \in N, docId \in I : Delete(name, docId) /\ Offline
  \/ \E name \in N, docIds \in IdLists(I) : DeleteMany(name, docIds) /\ Offline
  \/ \E name \in N, where \in Wheres : Find(name, where) /\ Offline
  \/ \E p \in P, name \in N : SetInvoke(p, name) /\ Offline
  \/ \E p \in P, name \in N, n \in 1 .. MaxBatch : SetManyInvoke(p, name, n) /\ Offline
  \/ \E p \in P : LockBody(p) /\ Offline
  \/ \E p \in P : SetCommit(p) /\ Offline
  \/ \E p \in P : SetManyCommit(p) /\ Offline

\* one connection working on collection "a", memory far below the limits
Next == Clients({1}, {"a"}, 0 .. MaxDocs)

Spec == Init /\ [][Next]_vars

\* one connection inserting into collection "a" while the memory readings
\* change, time passes and the sampler runs
NextMem ==
  \/ SetInvoke(1, "a") /\ Offline
  \/ \E n \in 1 .. MaxBatch : SetManyInvoke(1, "a", n) /\ Offline
  \/ LockBody(1) /\ Offline
  \/ SetCommit(1) /\ Offline
  \/ SetManyCommit(1) /\ Offline
  \/ \E u \in UsageLevels : MemoryChange(u) /\ Offline
  \/ Tick /\ Offline
  \/ startMonitoring /\ Offline
  \/ Sample /\ Offline

SpecMem == Init /\ [][NextMem]_vars

\* one connection inserting batches into collection "a" that setMany has to
\* split: rss close to its limit (chunks of LOW_MEMORY_CHUNK documents) or
\* the heap close to its limit (chunks of MAX_CHUNK documents)
ChunkUsages == UsageLevels \cup {[rss |-> RssLow, heapUsed |-> HeapEdge]}

NextChunk ==
  \/ \E n \in 1 .. MaxChunked : SetManyInvoke(1, "a", n) /\ Offline
  \/ LockBody(1) /\ Offline
  \/ SetManyCommit(1) /\ Offline
  \/ \E u \in ChunkUsages : MemoryChange(u) /\ Offline

SpecChunk == Init /\ [][NextChunk]_vars

\* Lists of one or two updates over the ids I: the first writes Patch, the
\* second Patch2, also to the same id
UpdateLists(I) ==
  {<<[id |-> i, doc |-> Patch]>> : i \in I} \cup
  {<<[id |-> x[1], doc |-> Patch], [id |-> x[2], doc |-> Patch2]>> : x \in I \X I}

\* Lists of one or two ids over I, also the same id twice
IdPairs(I) == {<<i>> : i \in I} \cup {<<x[1], x[2]>> : x \in I \X I}

\* the ids the bulk operations are given: the first id of the first shard
\* and the first id a second shard gives out
BulkIds == {0, MAX_ALLOCATED_ENTRIES + 1}

\* one connection inserting into and deleting from collection "a" and
\* running the bulk operations on it
NextBulk ==
  \/ SetInvoke(1, "a") /\ Offline
  \/ \E n \in 1 .. MaxBatch : SetManyInvoke(1, "a", n) /\ Offline
  \/ LockBody(1) /\ Offline
  \/ SetCommit(1) /\ Offline
  \/ SetManyCommit(1) /\ Offline
  \/ \E docId \in 0 .. MAX_ALLOCATED_ENTRIES + 1 : Delete("a", docId) /\ Offline
  \/ \E updates \in UpdateLists(BulkIds) : UpdateMany("a", updates) /\ Offline
  \/ \E updates \in UpdateLists(BulkIds) : ReplaceMany("a", updates) /\ Offline
  \/ \E docIds \in IdPairs(BulkIds) : DeleteMany("a", docIds) /\ Offline
  \/ \E docIds \in IdPairs(BulkIds) : GetMany("a", docIds) /\ Offline

SpecBulk == Init /\ [][NextBulk]_vars

\* two connections whose clients send up to MaxFrames frames
NextProto ==
  \/ \E c \in Conns, f \in Frames : ClientSend(c, f) /\ UNCHANGED compVars
  \/ \E c \in Conns : ReadLength(c) /\ UNCHANGED compVars
  \/ \E c \in Conns : Dispatch(c) /\ UNCHANGED compVars
  \/ \E c \in Conns : Locked(c) /\ UNCHANGED compVars
  \/ \E c \in Conns : Created(c) /\ UNCHANGED compVars
  \/ \E c \in Conns : CreatedMany(c) /\ UNCHANGED compVars
  \/ \E c \in Conns : SendPrefix(c) /\ UNCHANGED compVars
  \/ \E c \in Conns : SendBody(c) /\ UNCHANGED compVars

SpecProto == Init /\ [][NextProto]_vars

\* two connections inserting into two collections, one of which a client
\* registers on the way, and deleting
NextConc ==
  \/ Collection("b") /\ Offline
  \/ \E p \in Callers, name \in Names : SetInvoke(p, name) /\ Offline
  \/ \E p \in Callers, name \in Names, n \in 1 .. MaxBatch :
       SetManyInvoke(p, name, n) /\ Offline
  \/ \E p \in Callers : LockBody(p) /\ Offline
  \/ \E p \in Callers : SetCommit(p) /\ Offline
  \/ \E p \in Callers : SetManyCommit(p) /\ Offline
  \/ \E name \in Names, docId \in {0, NaN} : Delete(name, docId) /\ Offline

SpecConc == Init /\ [][NextConc]_vars

\* evaluateOperators and matchesWhere asked about the values, operators
\* and queries of the model
EvalScalars ==
  {Num(0), Num(1), Num(2), Str(<<>>), Str(<<"a">>), Str(<<"a", "b">>),
   Bool(FALSE), Bool(TRUE)}
EvalLists == {Arr(<<>>), Arr(<<Num(0)>>), Arr(<<Num(1), Str(<<"a">>)>>)}
EvalValues == EvalScalars \cup EvalLists \cup {Undefined}
EvalOps ==
  {[eq |-> x] : x \in EvalScalars} \cup {[gt |-> x] : x \in EvalScalars} \cup
  {[lt |-> x] : x \in EvalScalars} \cup {[gte |-> x] : x \in EvalScalars} \cup
  {[lte |-> x] : x \in EvalScalars} \cup {[in |-> x] : x \in EvalLists} \cup
  {[nin |-> x] : x \in EvalLists} \cup {[contains |-> x] : x \in EvalScalars} \cup
  {[overlap |-> x] : x \in EvalLists} \cup
  {[not |-> [eq |-> x]] : x \in EvalScalars} \cup
  {[gt |-> Num(0), lt |-> Num(2)], [gte |-> Num(1), not |-> [eq |-> Num(2)]]}

\* the operand of every relational operator has the type of the value, and
\* what is looked for in a string is a string
SameTyped(value, ops) ==
  /\ \A key \in DOMAIN ops \cap {"gt", "lt", "gte", "lte"} : ops[key].t = value.t
  /\ ("contains" \in DOMAIN ops /\ value.t = "string") => ops.contains.t = "string"

NextEval ==
  \/ \E value \in EvalValues, ops \in EvalOps :
       SameTyped(value, ops) /\ Evaluate(value, ops) /\ Offline
  \/ \E k \in 0 .. 2, where \in Wheres : Match(NewDoc(k), where) /\ Offline

SpecEval == Init /\ [][NextEval]_vars

\* canAllocate asked under every combination of readings, limits and estimate
AllocUsages == [rss : AllocRss, heapUsed : AllocHeap]
AllocConfigs ==
  {[DefaultConfig EXCEPT !.maxRSSBytes = m[1], !.maxHeapBytes = m[2]] :
     m \in AllocLimits}

\* (the sums rss + x and heapUsed + x kept within 32 bits)
NextAlloc ==
  \E u \in AllocUsages, cfg \in AllocConfigs, x \in AllocEstimates :
    /\ x <= 2047 * MiB - u.rss
    /\ x <= 2047 * MiB - u.heapUsed
    /\ AllocCheck(u, cfg, x)
    /\ Offline

SpecAlloc == Init /\ [][NextAlloc]_vars

\* the recency index asked for keys to evict while entries of two sizes are
\* touched and removed, time passes and the eviction policy changes
LruKeySet == {createLRUKey("a", i) : i \in 0 .. 2}
LruSizes == {10, 20}
LruTargets == {1, 10, 15, 30, 70}
Policies == {"lru", "random", "noeviction"}

NextLru ==
  \/ \E key \in LruKeySet, size \in LruSizes : TrackAccess(key, size) /\ Offline
  \/ \E key \in LruKeySet : RemoveFromLRU(key) /\ Offline
  \/ \E policy \in Policies : updateConfig(policy) /\ Offline
  \/ \E targetBytes \in LruTargets : KeysToEvict(targetBytes) /\ Offline
  \/ Tick /\ Offline

SpecLru == Init /\ [][NextLru]_vars

\* clients reading, registering, changing and dropping the collections
\* "a" and "b" of the catalog
NextCatalog ==
  \/ \E name \in Names : CatalogGet(name) /\ Offline
  \/ \E name \in Names : CatalogExists(name) /\ Offline
  \/ \E name \in Names, table \in Tables : CatalogSet(name, table) /\ Offline
  \/ \E name \in Names, table \in Tables : CatalogUpdate(name, table) /\ Offline
  \/ \E name \in Names : CatalogDelete(name) /\ Offline

SpecCatalog == Init /\ [][NextCatalog]_vars

\* connection 1 inserting batches into collection "a" that setMany may have
\* to split, while connection 2 inserts single documents into "a" and
\* documents are deleted
NextIngest ==
  \/ \E n \in 1 .. MaxChunked : SetManyInvoke(1, "a", n) /\ Offline
  \/ SetInvoke(2, "a") /\ Offline
  \/ \E p \in Callers : LockBody(p) /\ Offline
  \/ SetCommit(2) /\ Offline
  \/ SetManyCommit(1) /\ Offline
  \/ \E u \in ChunkUsages : MemoryChange(u) /\ Offline
  \/ \E docId \in 0 .. 1 : Delete("a", docId) /\ Offline

SpecIngest == Init /\ [][NextIngest]_vars

\* the chunk length asked for under rss readings from nothing to above the
\* limit and for documents of 54 bytes to one megabyte
ChunkRss == {k * 50 * MiB : k \in 0 .. 22}
SampleSizes == {54, 1054, 2054, 3054, 4054, 8054, 200054, 1048630}

NextChunkLength ==
  \E rss \in ChunkRss, sampleSize \in SampleSizes :
    ChunkLength([rss |-> rss, heapUsed |-> HeapLow], DefaultConfig, sampleSize)
      /\ Offline

SpecChunkLength == Init /\ [][NextChunkLength]_vars

\* callers locking the mutex with bodies that resolve or reject, at any
\* moment of the bodies before them
NextMutex ==
  \/ \E fn \in {"resolved", "rejected"} : MutexLock(fn)
  \/ \E k \in 1 .. Len(mutex) : BodyStart(k)
  \/ \E k \in 1 .. Len(mutex) : BodySettle(k)
  \/ \E k \in 1 .. Len(mutex) : Release(k)

SpecMutex == Init /\ [][NextMutex]_vars

\* two connections inserting documents and batches that setMany may have to
\* split into collection "a" while the memory readings change; the event
\* loop runs every continuation that is ready: the lock body of the caller
\* at the head of the queue and what follows the await of a caller whose
\* lock body has run
\* (LiveDocs documents fit into MaxShards shards)
NextLive ==
  \/ \E p \in Callers : made < LiveDocs /\ SetInvoke(p, "a") /\ Offline
  \/ \E p \in Callers, n \in 1 .. MaxChunked :
       made + n <= LiveDocs /\ SetManyInvoke(p, "a", n) /\ Offline
  \/ \E p \in Callers : LockBody(p) /\ Offline
  \/ \E p \in Callers : SetCommit(p) /\ Offline
  \/ \E p \in Callers : SetManyCommit(p) /\ Offline
  \/ \E u \in ChunkUsages : MemoryChange(u) /\ Offline

SpecLive ==
  /\ Init /\ [][NextLive]_vars
  /\ \A p \in Callers : /\ WF_vars(LockBody(p) /\ Offline)
                        /\ WF_vars(SetCommit(p) /\ Offline)
                        /\ WF_vars(SetManyCommit(p) /\ Offline)

\* readings below the eviction threshold, with rss at exactly 80 % of its
\* limit, with rss over its limit and with the heap over its limit
SamplerUsages ==
  {[rss |-> RssLow, heapUsed |-> HeapLow],
   [rss |-> (DefaultMaxRSS \div 5) * 4, heapUsed |-> HeapLow],
   [rss |-> RssOver, heapUsed |-> HeapLow],
   [rss |-> RssLow, heapUsed |-> DefaultMaxHeap + 1]}

\* clients registering and removing callbacks while the memory readings
\* change and the sampling timer, once started, fires
NextSampler ==
  \/ StartMonitoring
  \/ \E kind \in Kinds, cb \in Cbs : Register(kind, cb)
  \/ \E kind \in Kinds, cb \in Cbs : Unsubscribe(kind, cb)
  \/ CheckMemoryUsage
  \/ \E u \in SamplerUsages : MemoryChange(u) /\ Offline

SpecSampler == Init /\ [][NextSampler]_vars

\* clients starting and stopping the sampler, whose eviction callback may
\* stop it as well, while the memory readings change and the timers fire
NextMonitor ==
  \/ StartMonitoring
  \/ StopMonitoring
  \/ Register("eviction", Stopper)
  \/ Unsubscribe("eviction", Stopper)
  \/ CheckMemoryUsage
  \/ \E u \in SamplerUsages : MemoryChange(u) /\ Offline

SpecMonitor == Init /\ [][NextMonitor]_vars

\* the key of every collection name of KeyNames and of ids of one, two and
\* three digits made and parsed
KeyIds == (0 .. 30) \cup {99, 100, 109, 250}

NextKey ==
  \E name \in KeyNames, docId \in KeyIds : ParseKey(name, docId) /\ Offline

SpecKey == Init /\ [][NextKey]_vars

\* one connection inserting into, reading and deleting from collection "a" of
\* a process whose limits were set to a few hundred bytes, so that an eviction
\* pass frees one or two documents and leaves the others
EvictDocs == 3
SmallLimit == 250
EvictUsages == {[rss |-> 50, heapUsed |-> 50], [rss |-> 200, heapUsed |-> 50]}

NextEvict ==
  \/ updateConfigLimits(SmallLimit, SmallLimit) /\ Offline
  \/ made < EvictDocs /\ SetInvoke(1, "a") /\ Offline
  \/ LockBody(1) /\ Offline
  \/ SetCommit(1) /\ Offline
  \/ \E docId \in 0 .. EvictDocs : Get("a", docId) /\ Offline
  \/ \E docId \in 0 .. EvictDocs : Delete("a", docId) /\ Offline
  \/ \E docIds \in IdPairs(0 .. 1) : DeleteMany("a", docIds) /\ Offline
  \/ \E u \in EvictUsages : MemoryChange(u) /\ Offline
  \/ Tick /\ Offline
  \/ startMonitoring /\ Offline
  \/ Sample /\ Offline

SpecEvict == Init /\ [][NextEvict]_vars

\* one connection inserting into, reading, changing and searching collection
\* "a" while time passes, memory far below the limits
NextRecency ==
  \/ made < EvictDocs /\ SetInvoke(1, "a") /\ Offline
  \/ \E n \in 1 .. MaxBatch :
       made + n <= EvictDocs /\ SetManyInvoke(1, "a", n) /\ Offline
  \/ LockBody(1) /\ Offline
  \/ SetCommit(1) /\ Offline
  \/ SetManyCommit(1) /\ Offline
  \/ \E docId \in 0 .. EvictDocs : Get("a", docId) /\ Offline
  \/ \E docIds \in IdPairs(0 .. EvictDocs) : GetMany("a", docIds) /\ Offline
  \/ \E docId \in 0 .. EvictDocs : Update("a", docId, Patch) /\ Offline
  \/ \E where \in Wheres : Find("a", where) /\ Offline
  \/ Tick /\ Offline

SpecRecency == Init /\ [][NextRecency]_vars

\* Archive on its own: records of zero to five bytes are added, close is called
ArchiveRecords == {<<>>, <<1>>, <<2>>, <<1, 2>>, <<2, 1, 1>>, <<1, 1, 2, 2, 1>>}

NextArchive ==
  \/ \E content \in ArchiveRecords : AddRecord(content)
  \/ ArchiveClose

SpecArchive == Init /\ [][NextArchive]_vars

\* two callers use Client.send on the connection without waiting for each other
NextClient ==
  \/ \E p \in Senders : Send(p)
  \/ \E p \in Senders : WriteChunk(p)
  \/ \E p \in Senders : ChunkWritten(p)
  \/ ReadReturns
  \/ ServerAnswers

SpecClient == Init /\ [][NextClient]_vars

\* BackgroundQueue on its own: jobs are added, settle either way and their
\* callbacks run. Every job's promise settles at some time, and the event
\* loop runs the callbacks of a settled promise.
NextQueue ==
  \/ QueueAdd
  \/ \E job \in 1 .. MaxJobs, outcome \in Outcomes : JobSettles(job, outcome)
  \/ \E job \in 1 .. MaxJobs : JobFinally(job)

SpecQueue ==
  /\ Init
  /\ [][NextQueue]_vars
  /\ \A job \in 1 .. MaxJobs :
       /\ WF_vars(\E outcome \in Outcomes : JobSettles(job, outcome))
       /\ WF_vars(JobFinally(job))

----------------------------------------------------------------------------
(* Properties *)

\* the shards whose map of collection name holds docId
ShardsWith(name, docId) == {k \in 1 .. Len(maps) : DsHas(maps[k].data, name, docId)}

\* the successful id allocations of one collection, in commit order
CommitsOf(name) == SelectSeq(commits, LAMBDA c : c.name = name)

\* the documents one shard stores, over all collections
RECURSIVE EntriesIn(_, _)
EntriesIn(ds, names) ==
  IF names = {} THEN 0
  ELSE LET c == CHOOSE x \in names : TRUE
       IN Cardinality(DOMAIN ds[c].map) + EntriesIn(ds, names \ {c})

Entries(shard) == EntriesIn(shard.data, DOMAIN shard.data)

\* C1 (read-your-write): every document a set or setMany returned an id for
\* is what get returns for that id, until the id is updated, deleted or
\* evicted.
ReadYourWrite ==
  \A o \in expect :
    GetRes(maps, o[1], o[2]) = [status |-> OK, id |-> o[2], doc |-> o[3]]

\* C2 (monotonic DocId): within one collection every allocated id is
\* strictly greater than every id allocated before it; no id is returned
\* twice.
MonotonicDocId ==
  \A name \in Names :
    LET cs == CommitsOf(name)
    IN \A i \in 1 .. Len(cs) : \A j \in (i + 1) .. Len(cs) :
         cs[i].id # NaN /\ cs[j].id # NaN /\ cs[i].id < cs[j].id

\* C3 (dense ids across rotation): with no deletes, the k-th document
\* inserted into a collection (k from 0) gets id k, also when its insert
\* spawns a new shard; with capacity 2 the third create returns 2.
DenseIds ==
  ~everDeleted =>
    \A name \in Names :
      LET cs == CommitsOf(name)
      IN \A k \in 1 .. Len(cs) : cs[k].id = k - 1

\* C4 (shard disjointness): for every collection and id at most one shard's
\* map contains the id.
ShardDisjointness ==
  \A name \in Names : \A docId \in DocIds :
    Cardinality(ShardsWith(name, docId)) <= 1

\* C5 (shard capacity): every shard holds at most MAX_ALLOCATED_ENTRIES
\* entries, also after a setMany of more than one document.
ShardCapacity ==
  \A k \in 1 .. Len(maps) : Entries(maps[k]) <= MAX_ALLOCATED_ENTRIES

\* some shard stores doc under collection name
Stored(name, doc) ==
  \E k \in 1 .. Len(maps) :
    /\ name \in DOMAIN maps[k].data
    /\ \E i \in DOMAIN maps[k].data[name].map : maps[k].data[name].map[i] = doc

\* some entry of the recency index is for a document that is doc
Tracked(name, doc) ==
  \E e \in Range(lruCache) :
    /\ parseLRUKey(e.key).name = name
    /\ GetRes(maps, name, parseLRUKey(e.key).docId).status = OK
    /\ GetRes(maps, name, parseLRUKey(e.key).docId).doc = doc

\* C6 (setMany is all-or-nothing): a setMany call, chunked or not, ends with
\* OK, one id per input document and every document stored, or with ERROR
\* and none of its documents stored, tracked or logged.
SetManyAllOrNothing ==
  ret.op = "setMany" =>
    IF ret.status = OK
    THEN /\ Len(ret.ids) = Len(ret.docs)
         /\ \A k \in 1 .. Len(ret.docs) : Stored(ret.name, ret.docs[k])
    ELSE \A k \in 1 .. Len(ret.docs) :
           /\ ~Stored(ret.name, ret.docs[k])
           /\ ~Tracked(ret.name, ret.docs[k])
           /\ ret.docs[k] \notin Range(log)

\* C7 (delete postcondition): right after delete(collection, i) returned OK,
\* get(collection, i) returns ERROR, a second delete finds nothing to delete,
\* and the recency index has no entry for the key of (collection, i).
DeletePostcondition ==
  (ret.op = "delete" /\ ret.status = OK) =>
    /\ GetRes(maps, ret.name, ret.arg).status = ERROR
    /\ findIdInMap(maps, ret.name, ret.arg) = 0
    /\ createLRUKey(ret.name, ret.arg) \notin LruKeys(lruCache)

\* what a predicate means: an operator that is given constrains the value,
\* whatever its operand
RECURSIVE Holds(_, _)
Holds(value, ops) ==
  /\ "eq" \in DOMAIN ops => StrictEq(value, ops.eq)
  /\ "gt" \in DOMAIN ops => JsLess(ops.gt, value)
  /\ "lt" \in DOMAIN ops => JsLess(value, ops.lt)
  /\ "gte" \in DOMAIN ops => JsLessEq(ops.gte, value)
  /\ "lte" \in DOMAIN ops => JsLessEq(value, ops.lte)
  /\ "in" \in DOMAIN ops => Includes(ops.in, value)
  /\ "nin" \in DOMAIN ops => ~Includes(ops.nin, value)
  /\ "contains" \in DOMAIN ops =>
       CASE value.t = "array" -> Includes(value, ops.contains)
         [] value.t = "string" ->
              ops.contains.t = "string" /\ SubstringOf(ops.contains.v, value.v)
         [] OTHER -> FALSE
  /\ "overlap" \in DOMAIN ops =>
       /\ value.t = "array"
       /\ \E k \in 1 .. Len(ops.overlap.v) : Includes(value, ops.overlap.v[k])
  /\ "not" \in DOMAIN ops => ~Holds(value, ops.not)

RECURSIVE Satisfies(_, _)
Satisfies(doc, where) ==
  IF "field" \in DOMAIN where
  THEN Holds(IF where.field \in DOMAIN doc THEN doc[where.field] ELSE Undefined,
             where.op)
  ELSE IF "AND" \in DOMAIN where
  THEN \A k \in 1 .. Len(where.AND) : Satisfies(doc, where.AND[k])
  ELSE \E k \in 1 .. Len(where.OR) : Satisfies(doc, where.OR[k])

\* the {id, doc} pairs of the stored documents of a collection that satisfy p
LiveMatches(name, where) ==
  {[id |-> i, doc |-> maps[k].data[name].map[i]] :
     <<k, i>> \in {x \in (1 .. Len(maps)) \X DocIds :
                     /\ DsHas(maps[x[1]].data, name, x[2])
                     /\ Satisfies(maps[x[1]].data[name].map[x[2]], where)}}

\* C10 (find is exact): find(collection, p) returns exactly the {id, doc}
\* pairs of the stored documents of the collection that satisfy p, each
\* once.
FindExact ==
  ret.op = "find" =>
    /\ Range(ret.data) = LiveMatches(ret.name, ret.where)
    /\ Len(ret.data) = Cardinality(Range(ret.data))

\* C8 (log order equals commit order): the records handed to the log are the
\* documents of the successful set and setMany calls in commit order, and a
\* set or setMany that returns ERROR has appended none of its documents.
LogIsCommitOrder ==
  /\ log = [k \in 1 .. Len(commits) |-> commits[k].doc]
  /\ (ret.op \in {"set", "setMany"} /\ ret.status = ERROR) =>
       \A k \in 1 .. Len(ret.docs) : ret.docs[k] \notin Range(log)

\* C9 (admission soundness): canAllocate(x) is never true when rss + x is
\* over maxRSSBytes or heapUsed + x is over maxHeapBytes.
AdmissionSound ==
  (ret.op = "canAllocate" /\ ret.data) =>
    /\ ret.rss + ret.x <= ret.maxRSSBytes
    /\ ret.heapUsed + ret.x <= ret.maxHeapBytes

\* canAllocate was asked for an estimate that fits under the rss limit and
\* not under the heap limit, and said no
AdmissionRefused ==
  /\ ret.op = "canAllocate"
  /\ ret.x > 0
  /\ ret.rss + ret.x <= ret.maxRSSBytes
  /\ ret.heapUsed + ret.x > ret.maxHeapBytes
  /\ ~ret.data

\* C11 (predicate semantics): evaluateOperators and matchesWhere decide as
\* the grammar says, for every value and every operand, also the operands
\* 0, false and the empty string.
PredicateSemantics ==
  /\ ret.op = "evaluateOperators" => (ret.data <=> Holds(ret.value, ret.ops))
  /\ ret.op = "matchesWhere" => (ret.data <=> Satisfies(ret.doc, ret.where))

\* canAllocate refuses a setMany of the next n documents, and refuses its
\* first chunk too when the batch is large enough for chunked ingest
RefusedAtInvoke(n) ==
  LET docs == NextDocs(n)
      chunk == SubSeq(docs, 1, Min(finalChunkSize(usage, config, docs), n))
  IN /\ ~canAllocate(usage, config, estimatedSize(docs))
     /\ n > CHUNK_THRESHOLD => ~canAllocate(usage, config, estimatedSize(chunk))

\* C12 (admission refusal): a setMany that canAllocate refuses and that is
\* not (or no longer) eligible for chunking returns ERROR, stores, tracks
\* and logs nothing, allocates no id and leaves the sampler stopped; a set
\* on a registered collection succeeds whatever the memory readings and the
\* state of the sampler are.
AdmissionRefusal ==
  [][ /\ \A p \in Callers, name \in Names, n \in 1 .. MaxBatch :
          (SetManyInvoke(p, name, n) /\ RefusedAtInvoke(n)) =>
            /\ ret'.op = "setMany" /\ ret'.status = ERROR
            /\ maps' = maps /\ currentMapIndex' = currentMapIndex
            /\ lruCache' = lruCache /\ log' = log /\ commits' = commits
            /\ ~isMonitoring'
            /\ ~InFlight(p)'
      /\ \A q \in Callers :
          (SetCommit(q) /\ catalogExists(catalog, calls[q].name)) =>
            /\ ret'.status = OK
            /\ GetRes(maps', calls[q].name, ret'.id).status = OK
    ]_vars

\* a setMany of one document was refused at a reading close to the limit,
\* nothing is stored and the sampler is stopped
RefusedAndStopped ==
  /\ ret.op = "setMany" /\ ret.status = ERROR
  /\ Len(ret.docs) = 1
  /\ usage.rss = RssHigh
  /\ ~isMonitoring
  /\ commits # <<>>
  /\ Len(log) = Len(commits)

\* C13 (chunked ingest result): a chunked setMany whose chunks are all
\* admitted returns one id per input document, ids[k] is the id under which
\* docs[k] is stored, and when these documents are the only ones ever
\* written, ids[k] = k.
ChunkedIngestIds ==
  (ret.op = "setMany" /\ ret.status = OK /\ ret.chunk > 0) =>
    /\ Len(ret.ids) = Len(ret.docs)
    /\ \A k \in 1 .. Len(ret.docs) :
         /\ k <= Len(ret.ids)
         /\ GetRes(maps, ret.name, ret.ids[k]).status = OK
         /\ GetRes(maps, ret.name, ret.ids[k]).doc = ret.docs[k]
    /\ Len(commits) = Len(ret.docs) =>
         \A k \in 1 .. Len(ret.ids) : ret.ids[k] = k - 1

\* C18 (updateMany result): an updateMany that returns OK carries the data
\* {updated: [{id, doc}, ...]}, the updates in input order; one that returns
\* ERROR carries no data.
UpdateManyData ==
  ret.op = "updateMany" =>
    IF ret.status = OK
    THEN "updated" \in DOMAIN ret /\ ret.updated = ret.arg
    ELSE "updated" \notin DOMAIN ret

\* the place of the first update whose id is not stored (past the end: none)
FirstMiss(name, updates) ==
  Min(Len(updates) + 1,
      SeqSum([k \in 1 .. Len(updates) |->
                IF \A j \in 1 .. k : GetRes(maps, name, updates[j].id).status = OK
                THEN 1 ELSE 0]) + 1)

\* what reading id returns once the updates before place m are made in order
AfterUpdates(name, updates, m, docId) ==
  LET writes == {j \in 1 .. m - 1 : updates[j].id = docId}
  IN IF writes = {} THEN GetRes(maps, name, docId)
     ELSE [status |-> OK, id |-> docId,
           doc |-> updates[CHOOSE j \in writes : \A i \in writes : i <= j].doc]

\* the outcome of a bulk update: ERROR exactly when an id is missing, the
\* updates before the first miss made in list order, no other document
\* touched, no document added or removed
AppliedInOrder(name, updates) ==
  LET m == FirstMiss(name, updates)
  IN /\ ret'.status = IF m <= Len(updates) THEN ERROR ELSE OK
     /\ \A docId \in DocIds :
          GetRes(maps', name, docId) = AfterUpdates(name, updates, m, docId)
     /\ Len(maps') = Len(maps)
     /\ \A k \in 1 .. Len(maps) :
          /\ maps'[k].size = maps[k].size
          /\ DOMAIN maps'[k].data = DOMAIN maps[k].data
          /\ \A c \in DOMAIN maps[k].data :
               /\ DOMAIN maps'[k].data[c].map = DOMAIN maps[k].data[c].map
               /\ maps'[k].data[c].nextId = maps[k].data[c].nextId
               /\ maps'[k].data[c].size = maps[k].data[c].size
               /\ c # name => maps'[k].data[c] = maps[k].data[c]

\* C19 (bulk update order): updateMany and replaceMany apply the updates in
\* list order and return ERROR at the first id that is not stored: the
\* updates before it stay applied, the updates at and after it are not
\* applied; when every id is stored, OK is returned and every update applied.
BulkUpdateOrder ==
  [][(/\ ret'.op \in {"updateMany", "replaceMany"}
       /\ \/ UpdateMany(ret'.name, ret'.arg)
          \/ ReplaceMany(ret'.name, ret'.arg))
       => AppliedInOrder(ret'.name, ret'.arg)
    ]_vars

\* an updateMany of two updates failed at its second update and its first
\* update is stored
FirstAppliedSecondMissed ==
  /\ ret.op = "updateMany" /\ ret.status = ERROR
  /\ Len(ret.arg) = 2
  /\ GetRes(maps, ret.name, ret.arg[1].id).status = OK
  /\ GetRes(maps, ret.name, ret.arg[1].id).doc = ret.arg[1].doc
  /\ GetRes(maps, ret.name, ret.arg[2].id).status = ERROR

\* the ids of docIds that are stored, each at its first place in the list
StoredOnce(name, docIds) ==
  LET keep(k) == /\ GetRes(maps, name, docIds[k]).status = OK
                 /\ \A j \in 1 .. k - 1 : docIds[j] # docIds[k]
      F[k \in 0 .. Len(docIds)] ==
        IF k = 0 THEN <<>>
        ELSE IF keep(k) THEN Append(F[k - 1], docIds[k]) ELSE F[k - 1]
  IN F[Len(docIds)]

\* the outcome of deleteMany: OK, the stored ids of the list reported once
\* each in input order, exactly their documents gone, every other document
\* as before, and each shard's size lowered by the number of documents it
\* owned among them
DeletedExactly(name, docIds) ==
  LET gone == StoredOnce(name, docIds)
  IN /\ ret'.status = OK
     /\ ret'.deleted = gone
     /\ \A docId \in DocIds :
          GetRes(maps', name, docId) =
            IF docId \in Range(docIds) THEN [status |-> ERROR]
            ELSE GetRes(maps, name, docId)
     /\ Len(maps') = Len(maps)
     /\ \A k \in 1 .. Len(maps) :
          maps'[k].size =
            maps[k].size -
              Cardinality({docId \in Range(gone) : findIdInMap(maps, name, docId) = k})

\* C20 (deleteMany): deleteMany returns OK; data.deleted lists exactly the
\* input ids that were stored, in input order and at most once each;
\* exactly those documents are removed, misses are skipped, and the size of
\* each owning shard drops by the number of documents removed from it.
DeleteManyExact ==
  [][(ret'.op = "deleteMany" /\ DeleteMany(ret'.name, ret'.arg))
       => DeletedExactly(ret'.name, ret'.arg)
    ]_vars

\* the numbers of the frames of connection c that the loop has taken from
\* the connection, in arrival order
Taken(c) == 1 .. (conns[c].sent - Len(conns[c].inbox))

\* the frames the loop has dealt with: dispatched, skipped as empty, being
\* read, or refused
Handled(c) ==
  {conns[c].seen[k].n : k \in 1 .. Len(conns[c].seen)} \cup conns[c].zero \cup
  (IF conns[c].pc \in {"payload", "closed"} THEN {conns[c].req.n} ELSE {})

\* C14 (per-connection ordering): a connection's requests are processed in
\* arrival order, none is passed over, the responses are written in request
\* order, and while the loop reads a length prefix or a payload every
\* earlier request has its response written completely.
OrderedService ==
  \A c \in Conns :
    LET seen == conns[c].seen
        out == conns[c].out
    IN /\ \A k \in 1 .. Len(seen) - 1 : seen[k].n < seen[k + 1].n
       /\ Handled(c) = Taken(c)
       /\ Len(out) <= Len(seen)
       /\ \A k \in 1 .. Len(out) :
            /\ out[k].n = seen[k].n
            /\ k < Len(out) => out[k].complete
       /\ conns[c].pc \in {"read", "payload"} =>
            /\ Len(out) = Len(seen)
            /\ \A k \in 1 .. Len(out) : out[k].complete

\* the prefix of a second request was read after the first response was
\* written completely, while a third frame is waiting
SecondReadAfterFirstWritten ==
  \E c \in Conns :
    /\ conns[c].pc = "payload"
    /\ Len(conns[c].out) = 1 /\ conns[c].out[1].complete
    /\ conns[c].req.n = 2
    /\ conns[c].inbox # <<>>

\* the actions of the protocol and the engine operation of each
EngineOp ==
  [create |-> "set", get |-> "get", update |-> "update", delete |-> "delete",
   createMany |-> "setMany", getMany |-> "getMany", updateMany |-> "updateMany",
   deleteMany |-> "deleteMany", find |-> "find"]

ClosedSet == DOMAIN EngineOp

\* C15 (dispatch of the closed set): a well-formed request with one of the
\* nine actions is dispatched to the engine operation of its action, the
\* connection stays open while it is handled, and once the loop has gone on
\* to a later frame it has been answered with one complete response frame.
ClosedSetServed ==
  \A c \in Conns :
    \A k \in 1 .. Len(conns[c].seen) :
      LET s == conns[c].seen[k]
      IN s.action \in ClosedSet =>
           /\ s.op = EngineOp[s.action]
           /\ conns[c].req.n = s.n => conns[c].open
           /\ conns[c].req.n # s.n =>
                /\ k <= Len(conns[c].out)
                /\ conns[c].out[k].n = s.n
                /\ conns[c].out[k].complete

\* C16 (unknown action): a request whose action is outside the closed set
\* changes no engine state, gets no response frame and closes its
\* connection; a closed connection takes no further step.
UnknownActionCloses ==
  [][\A c \in Conns :
       /\ (Dispatch(c) /\ conns[c].req.msg.action \notin ClosedSet) =>
            /\ UNCHANGED engineVars
            /\ conns'[c].out = conns[c].out
            /\ ~conns'[c].open
       /\ ~conns[c].open => conns'[c] = conns[c]
    ]_vars

\* a connection was closed by a request with an unknown action while a
\* later request is waiting in it
ClosedWithRequestWaiting ==
  \E c \in Conns :
    /\ ~conns[c].open
    /\ conns[c].seen # <<>>
    /\ conns[c].seen[Len(conns[c].seen)].action = "drop"
    /\ conns[c].inbox # <<>>
    /\ conns[c].inbox[1].length > 0

\* C17 (frame length): an empty frame is skipped without dispatch or
\* response and the loop reads on; a frame longer than 100 MiB closes the
\* connection without a reply, before its payload is read or dispatched; a
\* frame of 100 MiB or less is read and handed to processMessage.
FrameLengthHandling ==
  [][\A c \in Conns :
       /\ ReadLength(c) =>
            LET f == Head(conns[c].inbox)
            IN /\ UNCHANGED engineVars
               /\ conns'[c].out = conns[c].out
               /\ conns'[c].seen = conns[c].seen
               /\ IF f.length = 0
                  THEN conns'[c].open /\ conns'[c].pc = "read"
                  ELSE IF f.length > 100 * 1024 * 1024
                  THEN ~conns'[c].open
                  ELSE conns'[c].open /\ conns'[c].pc = "payload"
       /\ (Dispatch(c) /\ conns[c].req.msg.action \in KnownActions) =>
            /\ conns'[c].open
            /\ Len(conns'[c].seen) = Len(conns[c].seen) + 1
            /\ conns'[c].seen[Len(conns'[c].seen)].n = conns[c].req.n
            /\ conns'[c].seen[Len(conns'[c].seen)].op # "none"
    ]_vars

\* an empty frame was skipped and a frame of exactly 100 MiB was dispatched
\* on the same connection
EmptySkippedLimitDispatched ==
  \E c \in Conns :
    /\ conns[c].zero # {}
    /\ \E k \in 1 .. Len(conns[c].seen) :
         /\ conns[c].seen[k].length = maxMessageSize
         /\ conns[c].seen[k].op = "get"

\* C21 (getMany): getMany returns OK with a map whose keys are exactly the
\* requested ids that are stored, each with the document a get of that id
\* returns; ids that are not stored are left out.
GetManyExact ==
  ret.op = "getMany" =>
    /\ ret.status = OK
    /\ {ret.data[k].id : k \in 1 .. Len(ret.data)} =
         {docId \in Range(ret.arg) : GetRes(maps, ret.name, docId).status = OK}
    /\ \A k \in 1 .. Len(ret.data) :
         /\ GetRes(maps, ret.name, ret.data[k].id).status = OK
         /\ ret.data[k].doc = GetRes(maps, ret.name, ret.data[k].id).doc
         /\ \A j \in 1 .. Len(ret.data) : ret.data[j].id = ret.data[k].id => j = k

\* a getMany of a missing id followed by a stored id returned the stored one
MissSkippedHitReturned ==
  /\ ret.op = "getMany" /\ ret.status = OK
  /\ Len(ret.arg) = 2
  /\ GetRes(maps, ret.name, ret.arg[1]).status = ERROR
  /\ GetRes(maps, ret.name, ret.arg[2]).status = OK
  /\ Len(ret.data) = 1 /\ ret.data[1].id = ret.arg[2]

\* C22 (emergency brake): an eviction invocation less than one second after
\* the previous one increments the counter, the third such invocation in a
\* row leaves the sampler stopped, and an invocation one second or more
\* after the previous one sets the counter to 0.
EmergencyBrake ==
  [][(Sample /\ getMemoryStats(usage, config).atThreshold) =>
       IF now - lastEvictionTime < 1000
       THEN /\ emergencyBrakeCount' = emergencyBrakeCount + 1
            /\ emergencyBrakeCount' >= 3 => ~isMonitoring'
       ELSE emergencyBrakeCount' = 0
    ]_vars

\* the entry of the recency index under key
LruEntry(cache, key) == cache[LruIndex(cache, key)]

\* the sizes of the first n keys of a list, summed
LruBytes(cache, keys, n) == SeqSum([k \in 1 .. n |-> LruEntry(cache, keys[k]).size])

\* keys is a cut of the index in ascending lastAccessed order: no key twice,
\* every key of the index, never a later access before an earlier one, and
\* nothing left out that was accessed before a key of the list
AscendingCut(cache, keys) ==
  /\ \A k \in 1 .. Len(keys) : LruIndex(cache, keys[k]) # 0
  /\ \A k, m \in 1 .. Len(keys) :
       k < m => /\ keys[k] # keys[m]
                /\ LruEntry(cache, keys[k]).lastAccessed <=
                     LruEntry(cache, keys[m]).lastAccessed
  /\ \A e \in Range(cache) :
       e.key \notin Range(keys) =>
         \A k \in 1 .. Len(keys) :
           LruEntry(cache, keys[k]).lastAccessed <= e.lastAccessed

CatalogOperations ==
  [][/\ ( /\ ~catalogExists(catalog, ret'.name)
          /\ \/ ret'.op = "catalog.get" /\ CatalogGet(ret'.name)
             \/ ret'.op = "catalog.update" /\ CatalogUpdate(ret'.name, ret'.arg)
             \/ ret'.op = "catalog.delete" /\ CatalogDelete(ret'.name) ) =>
          (ret'.status = ERROR /\ catalog' = catalog)
     /\ (ret'.op = "catalog.set" /\ CatalogSet(ret'.name, ret'.arg)) =>
          /\ ret'.status = OK
          /\ catalogGet(catalog', ret'.name) = [status |-> OK, data |-> ret'.arg]
     /\ (ret'.op = "catalog.delete" /\ CatalogDelete(ret'.name) /\ ret'.status = OK) =>
          /\ ~catalogExists(catalog', ret'.name)
          /\ catalogGet(catalog', ret'.name).status = ERROR
    ]_vars

\* witness of C24: collection "b" was registered and then dropped with OK,
\* and collection "a" has another schema than the one it started with
DroppedAndReplaced ==
  /\ ret.op = "catalog.delete" /\ ret.status = OK /\ ret.name = "b"
  /\ ~catalogExists(catalog, "b")
  /\ catalogExists(catalog, "a")
  /\ catalogGet(catalog, "a").data = TableUnique

\* C25: the ids one successful setMany returns are contiguous and increase
\* in input order (ids[k+1] = ids[k] + 1), also when the call is chunked
\* and another caller's insert into the collection commits between two of
\* its chunks
ContiguousIds ==
  (ret.op = "setMany" /\ ret.status = OK) =>
    \A k \in 1 .. Len(ret.ids) - 1 : ret.ids[k + 1] = ret.ids[k] + 1

\* clamp(x, lo, hi)
Clamp(x, lo, hi) == Max(lo, Min(x, hi))

\* C26: with available = maxRSSBytes - rss, the chunk size of chunked ingest
\* is clamp(floor(0.8 * available / perDocEstimate), 1000, 50000); it is at
\* most 5000 when available < 100 MiB; and it is always at least 1
ChunkSizeFormula ==
  ret.op = "chunkSize" =>
    /\ ret.data >= 1
    /\ ret.available < 100 * MiB => ret.data <= 5000
    /\ ret.available >= 100 * MiB =>
         ret.data = Clamp(FloorEightTenths(ret.available, ret.sampleSize),
                          1000, 50000)

\* C27: the bodies passed to the lock never overlap, and they run in the
\* order in which lock() was called, so at most one is in progress at any
\* time; a body that rejects rejects the promise of its own caller only,
\* and the callers after it still get the lock
LockExclusion ==
  /\ \A k, m \in 1 .. Len(mutex) :
       (mutex[k].body = "running" /\ mutex[m].body = "running") => k = m
  /\ \A k, m \in 1 .. Len(mutex) :
       (k < m /\ mutex[m].body # "queued") =>
         mutex[k].body \in {"resolved", "rejected"}
  /\ \A k \in 1 .. Len(mutex) :
       /\ mutex[k].run # "pending" => mutex[k].run = mutex[k].fn
       /\ (mutex[k].run # "pending" /\ k < Len(mutex)
             /\ mutex[k + 1].body = "queued") => ENABLED BodyStart(k + 1)

\* witness of C27: the first body rejected and its caller was rejected, the
\* second body ran after it and resolved, and the third body is running
RejectedThenServed ==
  /\ Len(mutex) >= 3
  /\ mutex[1].run = "rejected"
  /\ mutex[2].run = "resolved"
  /\ mutex[3].body = "running"

\* C28: under fair scheduling of the event loop every set and setMany call
\* eventually returns: a caller waiting for the lock eventually gets it, and
\* a call in flight, chunked or not, eventually is no longer in flight
CallsReturn ==
  \A p \in Callers :
    /\ (calls[p].pc = "waitLock") ~> (calls[p].pc = "locked")
    /\ InFlight(p) ~> ~InFlight(p)

\* witness of C28: a setMany that was split into chunks has returned OK for
\* all its documents while the other caller waits for the lock
ChunkedReturnedOtherWaiting ==
  /\ ret.op = "setMany" /\ ret.status = OK /\ ret.chunk > 0
  /\ Len(ret.ids) = MaxChunked
  /\ \E p \in Callers : calls[p].pc = "waitLock"

MonitoringIdempotent ==
  [][/\ Cardinality(monitor'.timers) <= 1
     /\ (monitor'.timers # {}) <=> (monitor'.last = "start")
     /\ (StartMonitoring /\ monitor.isMonitoring) =>
          (monitor'.timers = monitor.timers /\ monitor'.created = monitor.created)
     /\ (StopMonitoring /\ ~monitor.isMonitoring) =>
          [monitor' EXCEPT !.last = monitor.last] = monitor
    ]_vars

\* witness of C30: the sampler was started, stopped and started again: the
\* second timer is the only one active
RestartedOnce ==
  /\ monitor.created = 2 /\ monitor.timers = {2}
  /\ monitor.isMonitoring /\ monitor.last = "start"

\* C38: for every collection name the catalog accepts and every id >= 0,
\* parseLRUKey(createLRUKey(name, id)) returns (name, id)
KeyRoundTrip ==
  ret.op = "parseLRUKey" =>
    /\ ret.data.ok
    /\ ret.data.name = ret.name
    /\ ret.data.docId = ret.arg

\* the documents an eviction pass deleted, when the step is a sample that ran one
EvictedInPass == IF Sample /\ maps' # maps THEN performLRUEviction.evicted ELSE {}

\* C31: after an eviction pass no entry left in the recency index is older
\* than a document evicted in that pass, and every evicted document is absent
\* from the store (get returns ERROR) and from the recency index
EvictionOrder ==
  [][\A e \in EvictedInPass :
       /\ GetRes(maps', e[1], e[2]).status = ERROR
       /\ createLRUKey(e[1], e[2]) \notin LruKeys(lruCache')
       /\ \A s \in Range(lruCache'), o \in Range(lruCache) :
            o.key = createLRUKey(e[1], e[2]) => s.lastAccessed >= o.lastAccessed]_vars

\* the recency index holds an entry for (name, docId) stamped with the
\* current time, and no entry is newer
TouchedNow(cache, name, docId) ==
  /\ \E e \in Range(cache) :
       e.key = createLRUKey(name, docId) /\ e.lastAccessed = now
  /\ \A e \in Range(cache) : e.lastAccessed <= now

\* C32 as stated: a get makes the document strictly newer than every other
\* tracked document
GetMakesNewest ==
  [][\A docId \in 0 .. EvictDocs :
       (Get("a", docId) /\ ret'.status = OK) =>
         \A e \in Range(lruCache') :
           e.key # createLRUKey("a", docId) => e.lastAccessed < now]_vars

\* C32: after a successful get, a getMany hit, a set and a setMany the recency
\* index holds an entry for that (collection, id) whose lastAccessed is the
\* time of the operation, which no other entry exceeds and which every entry
\* stamped in an earlier millisecond is below; a get that misses creates no
\* entry, and update and find leave the recency index unchanged
RecencyTracking ==
  [][/\ \A docId \in 0 .. EvictDocs :
          Get("a", docId) =>
            IF ret'.status = OK THEN TouchedNow(lruCache', "a", docId)
            ELSE lruCache' = lruCache
     /\ \A docIds \in IdPairs(0 .. EvictDocs) :
          GetMany("a", docIds) =>
            /\ \A docId \in Range(docIds) :
                 GetRes(maps, "a", docId).status = OK =>
                   TouchedNow(lruCache', "a", docId)
            /\ LruKeys(lruCache') \ LruKeys(lruCache) \subseteq
                 {createLRUKey("a", docId) :
                    docId \in {i \in Range(docIds) : GetRes(maps, "a", i).status = OK}}
     /\ (SetCommit(1) /\ ret'.status = OK) =>
          TouchedNow(lruCache', "a", ret'.id)
     /\ (SetManyCommit(1) /\ lruCache' # lruCache) =>
          \A j \in 1 .. Len(calls[1].docs) :
            TouchedNow(lruCache', "a", commits'[Len(commits) + j].id)
     /\ (\E docId \in 0 .. EvictDocs : Update("a", docId, Patch)) =>
          lruCache' = lruCache
     /\ (\E where \in Wheres : Find("a", where)) => lruCache' = lruCache]_vars

\* a get of the oldest document at a later time, after which it is the newest
OlderMadeNewest ==
  /\ ret.op = "get" /\ ret.status = OK
  /\ Len(lruCache) >= 2
  /\ lruCache[1].key = createLRUKey("a", ret.id)
  /\ lruCache[1].lastAccessed = now
  /\ \A k \in 2 .. Len(lruCache) : lruCache[k].lastAccessed < now

\* shard k of ms and of ms2 differ at most in the document (name, docId)
SameBut(ms, ms2, k, name, docId) ==
  /\ Len(ms2) = Len(ms)
  /\ \A j \in 1 .. Len(ms) :
       /\ ms2[j].size = ms[j].size
       /\ DOMAIN ms2[j].data = DOMAIN ms[j].data
       /\ \A n \in DOMAIN ms[j].data :
            /\ ms2[j].data[n].nextId = ms[j].data[n].nextId
            /\ ms2[j].data[n].size = ms[j].data[n].size
            /\ DOMAIN ms2[j].data[n].map = DOMAIN ms[j].data[n].map
            /\ \A i \in DOMAIN ms[j].data[n].map :
                 <<j, n, i>> # <<k, name, docId>> =>
                   ms2[j].data[n].map[i] = ms[j].data[n].map[i]

\* C33: update on a stored id replaces only that document and returns OK with
\* {id, doc}: the stored ids, every nextId, every size counter, the active
\* shard index, the log and the recency index stay as they are; on an id that
\* is not stored it returns ERROR and changes nothing
UpdateFrame ==
  [][\A docId \in 0 .. EvictDocs :
       Update("a", docId, Patch) =>
         LET k == findIdInMap(maps, "a", docId)
         IN /\ IF k = 0
               THEN ret'.status = ERROR /\ maps' = maps
               ELSE /\ ret'.status = OK /\ ret'.id = docId /\ ret'.doc = Patch
                    /\ maps'[k].data["a"].map[docId] = Patch
                    /\ SameBut(maps, maps', k, "a", docId)
            /\ UNCHANGED <<currentMapIndex, log, lruCache, catalog, memVars>>]_vars

\* an update that returned OK while another document is stored beside it
UpdatedBesideOther ==
  /\ ret.op = "update" /\ ret.status = OK
  /\ \E k \in 1 .. Len(maps) :
       /\ DsHas(maps[k].data, "a", ret.id)
       /\ maps[k].data["a"].map[ret.id] = Patch
       /\ \E i \in DOMAIN maps[k].data["a"].map : maps[k].data["a"].map[i] # Patch
  /\ lruCache # <<>>

\* C34: after every addRecord the buffered byte count is the sum of the
\* lengths of the buffered records and is below the flush threshold, and the
\* bytes written followed by the bytes still buffered are all records added,
\* in order
LogBuffer ==
  /\ archive.bufSize = Len(Flatten(archive.buf))
  /\ archive.bufSize < FLUSH_BYTES
  /\ archive.written \o Flatten(archive.buf) = Flatten(archive.added)

\* the buffer's own bookkeeping: the count is exact and below the threshold
LogBufferCount ==
  /\ archive.bufSize = Len(Flatten(archive.buf))
  /\ archive.bufSize < FLUSH_BYTES

\* the documents stored in a shard, over all its collections
StoredIn(shard) ==
  {<<n, i>> \in (DOMAIN shard.data) \X DocIds : DsHas(shard.data, n, i)}

\* C35: the size counter of every shard is the number of documents stored in
\* it over all collections, so MapManager.size() is the number of documents
SizeCountersExact ==
  \A k \in 1 .. Len(maps) : maps[k].size = Cardinality(StoredIn(maps[k]))

\* C36: every key of the recency index names a (collection, id) that is
\* currently stored
LruTracksLive ==
  \A e \in Range(lruCache) :
    LET key == parseLRUKey(e.key)
    IN key.ok /\ GetRes(maps, key.name, key.docId).status = OK

\* the keys an eviction pass selected, when the step is a sample that ran one
SelectedInPass ==
  IF Sample /\ isMonitoring /\ getMemoryStats(usage, config).atThreshold
  THEN Range(performLRUEviction.selected) ELSE {}

\* C37: every key selected by an eviction pass is removed from the recency
\* index by that pass
EvictionProgress ==
  [][\A key \in SelectedInPass : key \notin LruKeys(lruCache')]_vars

\* the frames written so far, one after the other, and the start of one more
RECURSIVE WholeFrames(_)
WholeFrames(out) ==
  \/ out = <<>>
  \/ \E p \in Senders :
       LET n == Len(RequestFrame(p))
       IN IF Len(out) <= n THEN out = SubSeq(RequestFrame(p), 1, Len(out))
          ELSE /\ SubSeq(out, 1, n) = RequestFrame(p)
               /\ WholeFrames(SubSeq(out, n + 1, Len(out)))

\* C39: when two send calls are in flight on the shared connection the bytes
\* of their frames are not interleaved on the wire, and each call returns
\* the response to its own request
ClientPairing ==
  /\ WholeFrames(client.out)
  /\ \A p \in Senders :
       client.calls[p].pc = "returned" => client.calls[p].got = ResponseFrame(p)

\* one send call at a time: the frame is whole and the response its own
ClientPairingAlone ==
  (\E p \in Senders : client.calls[p].pc = "idle") => ClientPairing

\* at most maxConcurrent jobs are running, and the jobs were started in the
\* order added
QueueBounded ==
  /\ Cardinality({job \in 1 .. Len(queue.jobs) :
                    queue.jobs[job].state = "running"}) <= maxConcurrent
  /\ queue.running <= maxConcurrent
  /\ queue.started = [k \in 1 .. Len(queue.started) |-> k]

====
